---- MODULE Spec2Model ----
(***************************************************************************)
(* Order matching engine: the per-symbol order book (two heapq heaps with  *)
(* lazy deletion and an id index), the matching engine on top of it and    *)
(* the order/trade tables it writes.                                       *)
(*                                                                         *)
(* Spec      requests are served one at a time, each handler runs whole.  *)
(* SpecConc  two request threads; a handler is a chain of steps, each one  *)
(*           a locked section or a lock-free stretch of the matching loop. *)
(* SpecConcSubmit  two request threads that submit only, larger orders.    *)
(* SpecEngine    the engine's calls with reused ids and failing commits.   *)
(* SpecRecover   requests and restarts (rebuild_from_db).                  *)
(* SpecSnapshot  requests, the snapshot scheduler and its timer.           *)
(* SpecApi       requests with API keys, and the key check.                *)
(***************************************************************************)
EXTENDS Integers, Sequences, FiniteSets, TLC

\* ------------------------------------------------------------------ bounds
MaxOrders == 3          \* orders submitted
MaxOps == 4             \* requests that change a book (submit, modify, cancel)
MaxPrice == 2
MaxQty == 2
ConcMaxOps == 3         \* MaxOps of the two-thread specification
ConcMaxQty == 1         \* MaxQty of the two-thread specification
EngMaxOps == 3          \* MaxOps of the specification of the engine's own calls

Symbols == {"X", "Y"}
SubmitSymbols == {"X"}  \* orders go to X; cancel, modify and queries name X or Y
Sides == {"BUY", "SELL"}
OrderIds == 1..MaxOrders
Prices == 1..MaxPrice
Qtys == 1..MaxQty
ModQtys == 0..MaxQty    \* the PUT handler does not validate the new quantity
Threads == {1, 2}
None == 0               \* Python None for prices, node handles and ids

VARIABLES
    nodes,          \* every OrderNode allocated so far; a node handle is its index
    buy_orders,     \* symbol -> heap array (list of node handles) of the BUY side
    sell_orders,    \* symbol -> heap array of the SELL side
    orders_by_id,   \* symbol -> order id -> node handle or None
    order_books,    \* symbols that have an OrderBook in MatchingEngine.order_books
    db_orders,      \* order id -> row of table orders
    db_trades,      \* rows of table trades, in insertion order
    now,            \* the clock read by datetime.utcnow()
    threads,        \* request thread -> frame of the handler it runs
    result,         \* what the last finished handler returned
    cancelled,      \* ids for which cancel_order has returned success
    snapshot_interval_sec,  \* MatchingEngine._snapshot_interval_sec
    snapshot_thread,        \* MatchingEngine._snapshot_thread
    snapshot_file,          \* the newest file of the snapshot directory, if any
    snapshot_frame,         \* the _serialize call running on the Timer thread
    api_key,                \* app.config['API_KEY'], None when none is configured
    locks,                  \* lock -> the thread that owns the RLock, and how often
    lock_threads,           \* thread -> the steps its call has yet to run
    book_instances          \* symbol -> the OrderBook in the symbol map, and how
                            \* many were created for the symbol

lockvars == <<locks, lock_threads, book_instances>>

snapvars == <<snapshot_interval_sec, snapshot_thread, snapshot_file,
              snapshot_frame>>

vars == <<nodes, buy_orders, sell_orders, orders_by_id, order_books,
          db_orders, db_trades, now, threads, result, cancelled,
          snapshot_interval_sec, snapshot_thread, snapshot_file,
          snapshot_frame, api_key, lockvars>>

\* ------------------------------------------------------------- order nodes
remaining_quantity(n) == n.quantity - n.filled_quantity

is_filled(n) == remaining_quantity(n) <= 0

\* OrderNode.__lt__ : a < b, decided by the side of a
Lt(ns, a, b) ==
    IF ns[a].side = "BUY"
    THEN (IF ns[a].price # ns[b].price THEN ns[a].price > ns[b].price
          ELSE ns[a].timestamp < ns[b].timestamp)
    ELSE (IF ns[a].price # ns[b].price THEN ns[a].price < ns[b].price
          ELSE ns[a].timestamp < ns[b].timestamp)

\* ------------------------------------------------------------------- heapq
\* Positions are 0-based as in heapq; heap[pos + 1] is the TLA+ element.
RECURSIVE SiftdownLoop(_, _, _, _, _)
SiftdownLoop(ns, heap, startpos, pos, newitem) ==
    IF pos > startpos
    THEN LET parentpos == (pos - 1) \div 2
             parent == heap[parentpos + 1]
         IN  IF Lt(ns, newitem, parent)
             THEN SiftdownLoop(ns, [heap EXCEPT ![pos + 1] = parent],
                               startpos, parentpos, newitem)
             ELSE [heap EXCEPT ![pos + 1] = newitem]
    ELSE [heap EXCEPT ![pos + 1] = newitem]

siftdown(ns, heap, startpos, pos) ==
    SiftdownLoop(ns, heap, startpos, pos, heap[pos + 1])

RECURSIVE SiftupLoop(_, _, _)
SiftupLoop(ns, heap, pos) ==
    LET endpos == Len(heap)
        leftpos == 2 * pos + 1
        rightpos == leftpos + 1
    IN  IF leftpos < endpos
        THEN LET childpos ==
                    IF rightpos < endpos
                       /\ ~Lt(ns, heap[leftpos + 1], heap[rightpos + 1])
                    THEN rightpos ELSE leftpos
             IN  SiftupLoop(ns, [heap EXCEPT ![pos + 1] = heap[childpos + 1]],
                            childpos)
        ELSE [heap |-> heap, pos |-> pos]

siftup(ns, heap, pos) ==
    LET newitem == heap[pos + 1]
        r == SiftupLoop(ns, heap, pos)
    IN  siftdown(ns, [r.heap EXCEPT ![r.pos + 1] = newitem], pos, r.pos)

heappush(ns, heap, item) ==
    LET h == Append(heap, item)
    IN  siftdown(ns, h, 0, Len(h) - 1)

\* the heap left by heapq.heappop(heap); the popped item is heap[1]
heappop(ns, heap) ==
    LET lastelt == heap[Len(heap)]
        rest == SubSeq(heap, 1, Len(heap) - 1)
    IN  IF rest # <<>>
        THEN siftup(ns, [rest EXCEPT ![1] = lastelt], 0)
        ELSE rest

\* ------------------------------------------------------- the shared state
\* The handlers are written as functions of the shared state w (a record of
\* the variables above the line in VARIABLES) and of the running frame f.
World ==
    [nodes |-> nodes, buy_orders |-> buy_orders, sell_orders |-> sell_orders,
     orders_by_id |-> orders_by_id, order_books |-> order_books,
     db_orders |-> db_orders, db_trades |-> db_trades, now |-> now]

SetWorld(w) ==
    /\ nodes' = w.nodes
    /\ buy_orders' = w.buy_orders
    /\ sell_orders' = w.sell_orders
    /\ orders_by_id' = w.orders_by_id
    /\ order_books' = w.order_books
    /\ db_orders' = w.db_orders
    /\ db_trades' = w.db_trades
    /\ now' = w.now

NoRow ==
    [present |-> FALSE, symbol |-> "X", side |-> "BUY", quantity |-> 0,
     price |-> 0, status |-> "PENDING", filled_quantity |-> 0, created_at |-> 0]

IdleFrame ==
    [pc |-> "idle", op |-> "none", order_id |-> None, symbol |-> "X",
     node |-> None, new_quantity |-> 0, new_price |-> 0, resting |-> None,
     trade_quantity |-> 0, trade_price |-> 0, executed_trades |-> <<>>,
     ok |-> FALSE,
     db_ok |-> TRUE]    \* FALSE: db.session.commit() raises during this call

NoResult ==
    [op |-> "none", order_id |-> None, symbol |-> "X", ok |-> FALSE,
     trades |-> <<>>, status |-> 0]

Min(a, b) == IF a <= b THEN a ELSE b

\* MatchingEngine.get_order_book: the book is created on first use
get_order_book(w, symbol) ==
    [w EXCEPT !.order_books = @ \cup {symbol}]

\* ---------------------------------------------------------------- OrderBook
\* OrderBook.add_order, one locked section; f.node is the OrderNode to add
add_order(w, f) ==
    IF w.orders_by_id[f.symbol][f.order_id] # None
    THEN [w |-> w, ok |-> FALSE]
    ELSE LET w1 == [w EXCEPT !.orders_by_id[f.symbol][f.order_id] = f.node]
         IN  [w |-> IF w.nodes[f.node].side = "BUY"
                    THEN [w1 EXCEPT !.buy_orders[f.symbol] =
                                        heappush(w.nodes, @, f.node)]
                    ELSE [w1 EXCEPT !.sell_orders[f.symbol] =
                                        heappush(w.nodes, @, f.node)],
              ok |-> TRUE]

\* OrderBook.remove_order, one locked section
remove_order_any_book(w, symbol, order_id) ==
    LET found == {s \in Symbols : w.orders_by_id[s][order_id] # None}
    IN  IF found = {}
        THEN [w |-> w, ok |-> FALSE]
        ELSE LET s == CHOOSE x \in found : TRUE
                 h == w.orders_by_id[s][order_id]
             IN  [w |-> [w EXCEPT !.orders_by_id[s][order_id] = None,
                                  !.nodes[h].filled_quantity = w.nodes[h].quantity],
                  ok |-> TRUE]

remove_order(w, symbol, order_id) ==
    LET h == w.orders_by_id[symbol][order_id]
    IN  IF h = None
        THEN [w |-> w, ok |-> FALSE]
        ELSE [w |-> [w EXCEPT !.orders_by_id[symbol][order_id] = None,
                              !.nodes[h].filled_quantity = w.nodes[h].quantity],
              ok |-> TRUE]

\* OrderBook.modify_order, one locked section: the old node is marked filled
\* and a replacement node with a fresh timestamp is pushed
book_modify_order(w, symbol, order_id, new_quantity, new_price) ==
    LET h == w.orders_by_id[symbol][order_id]
    IN  IF h = None
        THEN [w |-> w, ok |-> FALSE]
        ELSE LET old == w.nodes[h]
                 new_order == [order_id |-> old.order_id, symbol |-> old.symbol,
                               side |-> old.side, quantity |-> new_quantity,
                               price |-> new_price, timestamp |-> w.now,
                               filled_quantity |-> 0]
                 ns == Append([w.nodes EXCEPT ![h].filled_quantity = old.quantity],
                              new_order)
                 nh == Len(ns)
                 w1 == [w EXCEPT !.nodes = ns, !.now = @ + 1,
                                 !.orders_by_id[symbol][order_id] = nh]
             IN  [w |-> IF old.side = "BUY"
                        THEN [w1 EXCEPT !.buy_orders[symbol] = heappush(ns, @, nh)]
                        ELSE [w1 EXCEPT !.sell_orders[symbol] = heappush(ns, @, nh)],
                  ok |-> TRUE]

\* the heap after the pruning loop of get_best_buy_price / get_best_sell_price
RECURSIVE PruneFilled(_, _)
PruneFilled(ns, heap) ==
    IF heap # <<>> /\ is_filled(ns[heap[1]])
    THEN PruneFilled(ns, heappop(ns, heap))
    ELSE heap

get_best_buy_price(w, symbol) ==
    LET h == PruneFilled(w.nodes, w.buy_orders[symbol])
    IN  IF h = <<>> THEN None ELSE w.nodes[h[1]].price

get_best_sell_price(w, symbol) ==
    LET h == PruneFilled(w.nodes, w.sell_orders[symbol])
    IN  IF h = <<>> THEN None ELSE w.nodes[h[1]].price

\* the nodes get_market_depth reports on one side, best first: it pops until
\* `levels` unfilled nodes are collected and reports each of them
RECURSIVE DepthNodes_with_ghosts(_, _, _)
DepthNodes_with_ghosts(ns, heap, levels) ==
    IF heap # <<>> /\ levels > 0
    THEN <<heap[1]>> \o DepthNodes_with_ghosts(ns, heappop(ns, heap), levels - 1)
    ELSE <<>>

RECURSIVE DepthNodes(_, _, _)
DepthNodes(ns, heap, levels) ==
    IF heap # <<>> /\ levels > 0
    THEN IF is_filled(ns[heap[1]])
         THEN DepthNodes(ns, heappop(ns, heap), levels)
         ELSE <<heap[1]>> \o DepthNodes(ns, heappop(ns, heap), levels - 1)
    ELSE <<>>

get_market_depth(w, symbol, levels) ==
    LET b == DepthNodes(w.nodes, w.buy_orders[symbol], levels)
        a == DepthNodes(w.nodes, w.sell_orders[symbol], levels)
    IN  [buy |-> [k \in 1..Len(b) |->
                    <<w.nodes[b[k]].price, remaining_quantity(w.nodes[b[k]])>>],
         sell |-> [k \in 1..Len(a) |->
                    <<w.nodes[a[k]].price, remaining_quantity(w.nodes[a[k]])>>],
         buy_nodes |-> b, sell_nodes |-> a]

\* ----------------------------------------------------------- MatchingEngine
\* MatchingEngine._update_order_status: copies the node's fill into its row
update_order_status(db, n) ==
    IF db[n.order_id].present
    THEN [db EXCEPT ![n.order_id].filled_quantity = n.filled_quantity,
                    ![n.order_id].status =
                        IF is_filled(n) THEN "FILLED"
                        ELSE IF n.filled_quantity > 0 THEN "PARTIALLY_FILLED"
                        ELSE "PENDING"]
    ELSE db

\* MatchingEngine._execute_trade: insert the trade row, refresh both order
\* rows from the nodes as they are now, commit. When the commit raises, the
\* session is rolled back and None is returned: the caller (the "execute"
\* step of the matching loop) then appends no trade and carries on.
execute_trade(w, buy, sell, quantity, price) ==
    LET trade == [buy_order_id |-> w.nodes[buy].order_id,
                  sell_order_id |-> w.nodes[sell].order_id,
                  symbol |-> w.nodes[buy].symbol,
                  quantity |-> quantity, price |-> price]
    IN  [w EXCEPT !.db_trades = Append(@, trade),
                  !.db_orders = update_order_status(
                                    update_order_status(@, w.nodes[buy]),
                                    w.nodes[sell])]

\* trade_data as returned to the submitter, with the facts of the moment of
\* the match kept beside it: who was incoming, what both orders had left
TradeData(w, f, buy, sell) ==
    [buy_order_id |-> w.nodes[buy].order_id,
     sell_order_id |-> w.nodes[sell].order_id,
     symbol |-> w.nodes[buy].symbol,
     quantity |-> f.trade_quantity, price |-> f.trade_price,
     incoming |-> f.node, resting |-> f.resting,
     buy_remaining |-> remaining_quantity(w.nodes[buy]),
     sell_remaining |-> remaining_quantity(w.nodes[sell])]

\* trade_quantity = min(remaining of the incoming, remaining of the resting)
trade_quantity_filled(incoming, resting) ==
    Min(incoming.filled_quantity, resting.filled_quantity)

trade_quantity(incoming, resting) ==
    Min(remaining_quantity(incoming), remaining_quantity(resting))

\* _match_buy_order: trade_price = sell_order.price
buy_trade_price_own(buy_order, sell_order) == buy_order.price

buy_trade_price(buy_order, sell_order) == sell_order.price

\* _match_sell_order: trade_price = buy_order.price
sell_trade_price(sell_order, buy_order) == buy_order.price

Done(w, f, ok) == [w |-> w, f |-> [f EXCEPT !.pc = "done", !.ok = ok]]

\* MatchingEngine._match_buy_order, one step of the loop; f.node is the buy
match_buy_order(w, f) ==
    LET buy_order == w.nodes[f.node]
        heap == w.sell_orders[f.symbol]
    IN  CASE f.pc = "match" ->
               IF ~is_filled(buy_order) /\ heap # <<>>
                  /\ w.nodes[heap[1]].price <= buy_order.price
               THEN LET sell_order == w.nodes[heap[1]]
                    IN  IF is_filled(sell_order)
                        THEN [w |-> [w EXCEPT !.sell_orders[f.symbol] =
                                                  heappop(w.nodes, heap)],
                              f |-> f]
                        ELSE [w |-> w,
                              f |-> [f EXCEPT
                                       !.resting = heap[1],
                                       !.trade_quantity =
                                           trade_quantity(buy_order, sell_order),
                                       !.trade_price =
                                           buy_trade_price(buy_order, sell_order),
                                       !.pc = "execute"]]
               ELSE Done(w, f, TRUE)
          [] f.pc = "execute" ->
               IF f.db_ok
               THEN [w |-> execute_trade(w, f.node, f.resting,
                                         f.trade_quantity, f.trade_price),
                     f |-> [f EXCEPT !.executed_trades =
                                Append(@, TradeData(w, f, f.node, f.resting)),
                                     !.pc = "update"]]
               ELSE [w |-> w, f |-> [f EXCEPT !.pc = "update"]]
          [] f.pc = "update" ->
               LET ns == [w.nodes EXCEPT
                            ![f.node].filled_quantity = @ + f.trade_quantity,
                            ![f.resting].filled_quantity = @ + f.trade_quantity]
                   w1 == [w EXCEPT !.nodes = ns]
               IN  IF is_filled(ns[f.resting])
                   THEN IF heap = <<>>
                        THEN Done(w1, f, FALSE)     \* heappop raises IndexError
                        ELSE [w |-> [w1 EXCEPT !.sell_orders[f.symbol] =
                                                   heappop(ns, heap)],
                              f |-> [f EXCEPT !.pc = "match"]]
                   ELSE [w |-> w1, f |-> [f EXCEPT !.pc = "match"]]

\* MatchingEngine._match_sell_order, one step of the loop; f.node is the sell
match_sell_order(w, f) ==
    LET sell_order == w.nodes[f.node]
        heap == w.buy_orders[f.symbol]
    IN  CASE f.pc = "match" ->
               IF ~is_filled(sell_order) /\ heap # <<>>
                  /\ w.nodes[heap[1]].price >= sell_order.price
               THEN LET buy_order == w.nodes[heap[1]]
                    IN  IF is_filled(buy_order)
                        THEN [w |-> [w EXCEPT !.buy_orders[f.symbol] =
                                                  heappop(w.nodes, heap)],
                              f |-> f]
                        ELSE [w |-> w,
                              f |-> [f EXCEPT
                                       !.resting = heap[1],
                                       !.trade_quantity =
                                           trade_quantity(sell_order, buy_order),
                                       !.trade_price =
                                           sell_trade_price(sell_order, buy_order),
                                       !.pc = "execute"]]
               ELSE Done(w, f, TRUE)
          [] f.pc = "execute" ->
               IF f.db_ok
               THEN [w |-> execute_trade(w, f.resting, f.node,
                                         f.trade_quantity, f.trade_price),
                     f |-> [f EXCEPT !.executed_trades =
                                Append(@, TradeData(w, f, f.resting, f.node)),
                                     !.pc = "update"]]
               ELSE [w |-> w, f |-> [f EXCEPT !.pc = "update"]]
          [] f.pc = "update" ->
               LET ns == [w.nodes EXCEPT
                            ![f.node].filled_quantity = @ + f.trade_quantity,
                            ![f.resting].filled_quantity = @ + f.trade_quantity]
                   w1 == [w EXCEPT !.nodes = ns]
               IN  IF is_filled(ns[f.resting])
                   THEN IF heap = <<>>
                        THEN Done(w1, f, FALSE)     \* heappop raises IndexError
                        ELSE [w |-> [w1 EXCEPT !.buy_orders[f.symbol] =
                                                   heappop(ns, heap)],
                              f |-> [f EXCEPT !.pc = "match"]]
                   ELSE [w |-> w1, f |-> [f EXCEPT !.pc = "match"]]

\* MatchingEngine._match_order
match_order(w, f) ==
    IF w.nodes[f.node].side = "BUY"
    THEN match_buy_order(w, f)
    ELSE match_sell_order(w, f)

\* MatchingEngine.submit_order after the node is built: add, then match
submit_order(w, f) ==
    IF f.pc = "add"
    THEN LET r == add_order(get_order_book(w, f.symbol), f)
         IN  IF r.ok
             THEN [w |-> r.w, f |-> [f EXCEPT !.pc = "match"]]
             ELSE Done(r.w, f, FALSE)
    ELSE match_order(w, f)

\* MatchingEngine.cancel_order: the book first, then the order row
cancel_order(w, f) ==
    IF f.pc = "remove"
    THEN LET r == remove_order(get_order_book(w, f.symbol), f.symbol, f.order_id)
         IN  IF r.ok
             THEN [w |-> r.w, f |-> [f EXCEPT !.pc = "dbcancel"]]
             ELSE Done(r.w, f, FALSE)
    ELSE IF ~f.db_ok
    THEN Done(w, f, FALSE)          \* except: "Error cancelling order"
    ELSE Done(IF w.db_orders[f.order_id].present
              THEN [w EXCEPT !.db_orders[f.order_id].status = "CANCELLED"]
              ELSE w,
              f, TRUE)

\* MatchingEngine.modify_order: the book first, then the order row
modify_order(w, f) ==
    IF f.pc = "bookmodify"
    THEN LET r == book_modify_order(get_order_book(w, f.symbol), f.symbol,
                                    f.order_id, f.new_quantity, f.new_price)
         IN  IF r.ok
             THEN [w |-> r.w, f |-> [f EXCEPT !.pc = "dbmodify"]]
             ELSE Done(r.w, f, FALSE)
    ELSE IF ~f.db_ok
    THEN Done(w, f, FALSE)          \* except: "Error modifying order"
    ELSE Done(IF w.db_orders[f.order_id].present
              THEN [w EXCEPT !.db_orders[f.order_id].quantity = f.new_quantity,
                             !.db_orders[f.order_id].price = f.new_price]
              ELSE w,
              f, TRUE)

\* MatchingEngine.get_order_status: the node in the symbol's index if there is
\* one, else the order row whatever its symbol
get_order_status(w, order_id, symbol) ==
    LET h == w.orders_by_id[symbol][order_id]
        row == w.db_orders[order_id]
    IN  IF h # None
        THEN [found |-> TRUE, quantity |-> w.nodes[h].quantity,
              price |-> w.nodes[h].price,
              filled_quantity |-> w.nodes[h].filled_quantity,
              status |-> IF is_filled(w.nodes[h]) THEN "FILLED"
                         ELSE IF w.nodes[h].filled_quantity > 0
                              THEN "PARTIALLY_FILLED" ELSE "PENDING"]
        ELSE IF row.present
        THEN [found |-> TRUE, quantity |-> row.quantity, price |-> row.price,
              filled_quantity |-> row.filled_quantity, status |-> row.status]
        ELSE [found |-> FALSE, quantity |-> 0, price |-> 0,
              filled_quantity |-> 0, status |-> "NONE"]

\* one step of whatever handler the frame runs
Step(w, f) ==
    CASE f.op = "submit" -> submit_order(w, f)
      [] f.op = "cancel" -> cancel_order(w, f)
      [] f.op = "modify" -> modify_order(w, f)

\* a handler run from its current step to its return
RECURSIVE Run(_)
Run(wf) == IF wf.f.pc = "done" THEN wf ELSE Run(Step(wf.w, wf.f))

\* what the handler returns: (success, trades); a failed submit returns [];
\* status is the HTTP status the route answers with: 201 for an accepted
\* order, 200 for a cancel or modify that succeeded, 400 for a failure
Returned(f) ==
    [op |-> f.op, order_id |-> f.order_id, symbol |-> f.symbol, ok |-> f.ok,
     trades |-> IF f.ok THEN f.executed_trades ELSE <<>>,
     status |-> IF ~f.ok THEN 400 ELSE IF f.op = "submit" THEN 201 ELSE 200]

\* ------------------------------------------------------------ the frontend
NextOrderId(w) == Cardinality({i \in OrderIds : w.db_orders[i].present}) + 1

\* POST /orders up to the call of add_order: a fresh id, the PENDING row
\* committed, then submit_order builds the OrderNode with its own timestamp
post_order(w, side, symbol, quantity, price) ==
    LET order_id == NextOrderId(w)
        row == [present |-> TRUE, symbol |-> symbol, side |-> side,
                quantity |-> quantity, price |-> price, status |-> "PENDING",
                filled_quantity |-> 0, created_at |-> w.now]
        order_node == [order_id |-> order_id, symbol |-> symbol, side |-> side,
                       quantity |-> quantity, price |-> price,
                       timestamp |-> w.now + 1, filled_quantity |-> 0]
    IN  [w |-> [w EXCEPT !.db_orders[order_id] = row,
                         !.nodes = Append(@, order_node),
                         !.now = @ + 2],
         f |-> [IdleFrame EXCEPT !.pc = "add", !.op = "submit",
                                 !.order_id = order_id, !.symbol = symbol,
                                 !.node = Len(w.nodes) + 1]]

\* MatchingEngine.submit_order called with order_data whose order_id the
\* caller chose: the OrderNode is built, no order row is written
engine_submit(w, order_id, side, symbol, quantity, price) ==
    LET order_node == [order_id |-> order_id, symbol |-> symbol, side |-> side,
                       quantity |-> quantity, price |-> price,
                       timestamp |-> w.now, filled_quantity |-> 0]
    IN  [w |-> [w EXCEPT !.nodes = Append(@, order_node), !.now = @ + 1],
         f |-> [IdleFrame EXCEPT !.pc = "add", !.op = "submit",
                                 !.order_id = order_id, !.symbol = symbol,
                                 !.node = Len(w.nodes) + 1]]

\* the same call while the database refuses to commit
JournalDown(r) == [r EXCEPT !.f.db_ok = FALSE]

\* DELETE /orders/<order_id>?symbol=
delete_order(w, order_id, symbol) ==
    [w |-> w,
     f |-> [IdleFrame EXCEPT !.pc = "remove", !.op = "cancel",
                             !.order_id = order_id, !.symbol = symbol]]

\* PUT /orders/<order_id>?symbol=
put_order(w, order_id, symbol, new_quantity, new_price) ==
    [w |-> w,
     f |-> [IdleFrame EXCEPT !.pc = "bookmodify", !.op = "modify",
                             !.order_id = order_id, !.symbol = symbol,
                             !.new_quantity = new_quantity,
                             !.new_price = new_price]]

\* every accepted submit and modify allocates a node, every successful cancel
\* enters cancelled: the model stops taking new requests after MaxOps of them
OpsLeft(max) == Len(nodes) + Cardinality(cancelled) < max

CanSubmit(max) == NextOrderId(World) <= MaxOrders /\ OpsLeft(max)

CanModify(max) == OpsLeft(max)

CanCancel(max, order_id) == OpsLeft(max) \/ order_id \in cancelled

AllIdle == \A t \in Threads : threads[t].pc = "idle"

Finish(r) ==
    /\ SetWorld(r.w)
    /\ result' = Returned(r.f)
    /\ cancelled' = IF r.f.op = "cancel" /\ r.f.ok
                    THEN cancelled \cup {r.f.order_id} ELSE cancelled
    /\ UNCHANGED <<snapvars, api_key, lockvars>>

\* --------------------------------------------------------------- Init, Spec
\* no timer: _snapshot_thread is None
NoTimer == [started |-> FALSE, remaining |-> 0]

\* the engine's lock of the symbol map and one lock per book
Locks == {"engine"} \cup Symbols

\* the request threads and the Timer thread
TimerThread == 3
LockThreads == Threads \cup {TimerThread}

\* an RLock nobody owns
Unlocked == [owner |-> None, count |-> 0]

\* a thread that runs no call of the engine; absent is what the test of
\* get_order_book found, book the OrderBook the call received
NoCall ==
    [op |-> "none", symbol |-> "X", todo |-> <<>>, held |-> <<>>,
     absent |-> FALSE, book |-> None]

\* no OrderBook was created for the symbol
NoBook == [current |-> None, made |-> 0]

\* no _serialize call is running
NoSerialize ==
    [pc |-> "idle", books |-> {}, symbols |-> {}, symbol |-> "X",
     depth |-> <<>>, size |-> 0, ids |-> {}, orders |-> {}, best_bid |-> None,
     data |-> <<>>, raised |-> FALSE]

\* the engine and the tables of a process that starts on an empty database
InitEngine ==
    /\ nodes = <<>>
    /\ buy_orders = [s \in Symbols |-> <<>>]
    /\ sell_orders = [s \in Symbols |-> <<>>]
    /\ orders_by_id = [s \in Symbols |-> [i \in OrderIds |-> None]]
    /\ order_books = {}
    /\ db_orders = [i \in OrderIds |-> NoRow]
    /\ db_trades = <<>>
    /\ now = 1
    /\ threads = [t \in Threads |-> IdleFrame]
    /\ result = NoResult
    /\ cancelled = {}
    /\ snapshot_thread = NoTimer
    /\ snapshot_file = <<>>
    /\ snapshot_frame = NoSerialize
    /\ locks = [l \in Locks |-> Unlocked]
    /\ lock_threads = [t \in LockThreads |-> NoCall]
    /\ book_instances = [s \in Symbols |-> NoBook]

\* periodic snapshots are off and no API key is configured
Init == InitEngine /\ snapshot_interval_sec = 0 /\ api_key = None

\* requests served one at a time: each handler runs to its return
SubmitOrder ==
    /\ AllIdle /\ CanSubmit(MaxOps)
    /\ \E side \in Sides, symbol \in SubmitSymbols, quantity \in Qtys,
          price \in Prices :
          Finish(Run(post_order(World, side, symbol, quantity, price)))
    /\ UNCHANGED threads

CancelOrder ==
    /\ AllIdle
    /\ \E order_id \in OrderIds, symbol \in Symbols :
          /\ CanCancel(MaxOps, order_id)
          /\ Finish(Run(delete_order(World, order_id, symbol)))
    /\ UNCHANGED threads

ModifyOrder ==
    /\ AllIdle /\ CanModify(MaxOps)
    /\ \E order_id \in OrderIds, symbol \in Symbols,
          new_quantity \in ModQtys, new_price \in Prices :
          Finish(Run(put_order(World, order_id, symbol, new_quantity, new_price)))
    /\ UNCHANGED threads

Next == SubmitOrder \/ CancelOrder \/ ModifyOrder

Spec == Init /\ [][Next]_vars

\* two request threads: a request starts, then advances one step at a time
Start(t, r) ==
    /\ threads[t].pc = "idle"
    /\ SetWorld(r.w)
    /\ threads' = [threads EXCEPT ![t] = r.f]
    /\ UNCHANGED <<result, cancelled, snapvars, api_key, lockvars>>

BeginSubmit(t) ==
    /\ CanSubmit(ConcMaxOps)
    /\ \E side \in Sides, symbol \in SubmitSymbols, quantity \in 1..ConcMaxQty,
          price \in Prices :
          Start(t, post_order(World, side, symbol, quantity, price))

BeginCancel(t) ==
    \E order_id \in OrderIds, symbol \in SubmitSymbols :
       /\ CanCancel(ConcMaxOps, order_id)
       /\ Start(t, delete_order(World, order_id, symbol))

BeginModify(t) ==
    /\ CanModify(ConcMaxOps)
    /\ \E order_id \in OrderIds, symbol \in SubmitSymbols,
          new_quantity \in 1..ConcMaxQty, new_price \in Prices :
          Start(t, put_order(World, order_id, symbol, new_quantity, new_price))

Advance(t) ==
    /\ threads[t].pc # "idle"
    /\ LET r == Step(World, threads[t])
       IN  IF r.f.pc = "done"
           THEN Finish(r) /\ threads' = [threads EXCEPT ![t] = IdleFrame]
           ELSE /\ SetWorld(r.w)
                /\ threads' = [threads EXCEPT ![t] = r.f]
                /\ UNCHANGED <<result, cancelled, snapvars, api_key, lockvars>>

NextConc ==
    \E t \in Threads :
       BeginSubmit(t) \/ BeginCancel(t) \/ BeginModify(t) \/ Advance(t)

SpecConc == Init /\ [][NextConc]_vars

\* the engine's calls on their own: an order id may be one the caller used
\* before, and the database may refuse to commit during a call
ResubmitOrder ==
    \E order_id \in OrderIds, side \in Sides, quantity \in Qtys, price \in Prices :
       /\ db_orders[order_id].present
       /\ Finish(Run(engine_submit(World, order_id, side,
                                   db_orders[order_id].symbol, quantity, price)))
       /\ UNCHANGED threads

SubmitJournalDown ==
    /\ NextOrderId(World) <= MaxOrders
    /\ \E side \in Sides, symbol \in SubmitSymbols, quantity \in Qtys,
          price \in Prices :
          Finish(Run(JournalDown(post_order(World, side, symbol, quantity, price))))
    /\ UNCHANGED threads

CancelJournalDown ==
    /\ \E order_id \in OrderIds, symbol \in Symbols :
          Finish(Run(JournalDown(delete_order(World, order_id, symbol))))
    /\ UNCHANGED threads

ModifyJournalDown ==
    /\ \E order_id \in OrderIds, symbol \in Symbols,
          new_quantity \in ModQtys, new_price \in Prices :
          Finish(Run(JournalDown(put_order(World, order_id, symbol,
                                          new_quantity, new_price))))
    /\ UNCHANGED threads

EngineIdle == AllIdle /\ OpsLeft(EngMaxOps)

NextEngine ==
    \/ EngineIdle /\ SubmitOrder
    \/ EngineIdle /\ CancelOrder
    \/ EngineIdle /\ ModifyOrder
    \/ EngineIdle /\ ResubmitOrder
    \/ EngineIdle /\ SubmitJournalDown
    \/ EngineIdle /\ CancelJournalDown
    \/ EngineIdle /\ ModifyJournalDown

SpecEngine == Init /\ [][NextEngine]_vars

\* ================================================================== claims
\* a node that rests: it is its order's node in the id index and has
\* quantity left
Resting(h) ==
    /\ orders_by_id[nodes[h].symbol][nodes[h].order_id] = h
    /\ remaining_quantity(nodes[h]) > 0

BetterPrice(n, m) ==
    IF n.side = "BUY" THEN n.price > m.price ELSE n.price < m.price

SameQueue(n, m) == n.symbol = m.symbol /\ n.side = m.side

RECURSIVE SumFilled(_, _, _)
SumFilled(w, symbol, ids) ==
    IF ids = {} THEN 0
    ELSE LET i == CHOOSE x \in ids : TRUE
         IN  get_order_status(w, i, symbol).filled_quantity
             + SumFilled(w, symbol, ids \ {i})

RECURSIVE TradedVolume(_, _)
TradedVolume(trades, symbol) ==
    IF trades = <<>> THEN 0
    ELSE (IF Head(trades).symbol = symbol THEN Head(trades).quantity ELSE 0)
         + TradedVolume(Tail(trades), symbol)

OrdersOf(symbol, side) ==
    {i \in OrderIds : /\ db_orders[i].present
                      /\ db_orders[i].symbol = symbol
                      /\ db_orders[i].side = side}

LastSubmitTrades == IF result.op = "submit" THEN result.trades ELSE <<>>

\* C1: after every submit, cancel and modify, for every symbol the best bid
\* or the best ask is absent or best_bid < best_ask.
C1_NeverCrossed ==
    \A s \in Symbols :
       LET bid == get_best_buy_price(World, s)
           ask == get_best_sell_price(World, s)
       IN  bid = None \/ ask = None \/ bid < ask

\* C2: price-time priority. Every trade of a submit takes the best-priced
\* resting order of the opposite side, among equal prices the one accepted
\* first, and no order receives a fill while an order accepted earlier on
\* its side at its price still has quantity left.
C2_PriceTimePriority ==
    \A k \in 1..Len(LastSubmitTrades) :
       LET t == LastSubmitTrades[k]
           r == nodes[t.resting]
       IN  /\ \A h \in 1..Len(nodes) :
                (h # t.resting /\ Resting(h) /\ SameQueue(nodes[h], r))
                => /\ ~BetterPrice(nodes[h], r)
                   /\ ~(nodes[h].price = r.price /\ h < t.resting)
           /\ \A j \in 1..(k - 1) :
                LET q == LastSubmitTrades[j].resting
                IN  /\ ~BetterPrice(r, nodes[q])
                    /\ ~(r.price = nodes[q].price /\ t.resting < q)
           /\ \A h \in 1..Len(nodes) :
                ~(/\ h < t.incoming
                  /\ Resting(h)
                  /\ SameQueue(nodes[h], nodes[t.incoming])
                  /\ nodes[h].price = nodes[t.incoming].price)

\* C3: passive-price rule. Every trade of a submit is priced at the price of
\* the order that was resting (the one that is not the submitted order), and
\* that price is <= the buy order's price and >= the sell order's price.
C3_PassivePrice ==
    \A k \in 1..Len(LastSubmitTrades) :
       LET t == LastSubmitTrades[k]
           incoming == nodes[t.incoming]
           passive == nodes[t.resting]
           buy == IF incoming.side = "BUY" THEN incoming ELSE passive
           sell == IF incoming.side = "BUY" THEN passive ELSE incoming
       IN  /\ incoming.order_id = result.order_id
           /\ passive.order_id # result.order_id
           /\ {t.buy_order_id, t.sell_order_id}
                 = {incoming.order_id, passive.order_id}
           /\ buy.order_id = t.buy_order_id
           /\ t.price = passive.price
           /\ t.price <= buy.price
           /\ t.price >= sell.price

C3_Witness ==
    \E k \in 1..Len(LastSubmitTrades) :
       LET t == LastSubmitTrades[k]
       IN  /\ t.buy_order_id = result.order_id
           /\ nodes[t.incoming].price > t.price

\* C4: for every order node, 0 <= filled_quantity <= quantity, also when
\* requests on the same symbol run concurrently.
C4_FilledWithinQuantity ==
    \A h \in 1..Len(nodes) :
       /\ 0 <= nodes[h].filled_quantity
       /\ nodes[h].filled_quantity <= nodes[h].quantity

\* C5: conservation. For every symbol the filled quantities of the buy orders
\* and of the sell orders both add up to the traded volume, and a cancel or a
\* modify changes no order's filled quantity.
C5_Conservation ==
    /\ [](\A s \in Symbols :
            /\ SumFilled(World, s, OrdersOf(s, "BUY"))
                 = SumFilled(World, s, OrdersOf(s, "SELL"))
            /\ SumFilled(World, s, OrdersOf(s, "BUY"))
                 = TradedVolume(db_trades, s))
    /\ [][result'.op \in {"cancel", "modify"}
          => \A i \in OrderIds :
                db_orders[i].present
                => get_order_status(World, i, db_orders[i].symbol).filled_quantity
                   = get_order_status(World', i, db_orders[i].symbol).filled_quantity]_vars

\* C6: every trade of a submit has quantity > 0 and <= what the buy and the
\* sell order had left just before it was executed; its buy_order_id is a BUY
\* order and its sell_order_id a SELL order of the trade's symbol.
C6_TradeQuantity ==
    \A k \in 1..Len(LastSubmitTrades) :
       LET t == LastSubmitTrades[k]
       IN  /\ t.quantity > 0
           /\ t.quantity <= t.buy_remaining
           /\ t.quantity <= t.sell_remaining
           /\ db_orders[t.buy_order_id].side = "BUY"
           /\ db_orders[t.sell_order_id].side = "SELL"
           /\ db_orders[t.buy_order_id].symbol = t.symbol
           /\ db_orders[t.sell_order_id].symbol = t.symbol

\* C7: between requests, an order id is in a book's id index exactly if the
\* order has quantity left and has not been cancelled.
C7_IndexConsistency ==
    \A s \in Symbols, i \in OrderIds :
       orders_by_id[s][i] # None
       <=> /\ db_orders[i].present
           /\ db_orders[i].symbol = s
           /\ i \notin cancelled
           /\ \E h \in 1..Len(nodes) :
                 /\ nodes[h].order_id = i
                 /\ \A g \in 1..Len(nodes) : nodes[g].order_id = i => g <= h
                 /\ remaining_quantity(nodes[h]) > 0

\* C8: cancel_order on an order that is already fully filled returns failure
\* and changes nothing: its status stays FILLED, its filled quantity stays.
C8_CancelFilledFails ==
    [][(/\ result'.op = "cancel"
        /\ get_order_status(World, result'.order_id, result'.symbol).status
             = "FILLED"
        /\ get_order_status(World, result'.order_id, result'.symbol).quantity > 0)
       => /\ ~result'.ok
          /\ get_order_status(World', result'.order_id, result'.symbol)
               = get_order_status(World, result'.order_id, result'.symbol)]_vars

\* C9: cancel_order with an id that is not in the named symbol's book returns
\* failure and leaves the nodes, heaps, indexes and both tables unchanged; a
\* cancel never succeeds for an id it has already succeeded for. The first
\* conjunct is the request served in one step, the second the same request as
\* a thread's step through remove_order, the third the return of a cancel.
C9_CancelUnknownIsNoOp ==
    [][/\ (/\ AllIdle /\ AllIdle'
           /\ result'.op = "cancel"
           /\ orders_by_id[result'.symbol][result'.order_id] = None)
          => /\ ~result'.ok
             /\ UNCHANGED <<nodes, buy_orders, sell_orders, orders_by_id,
                            db_orders, db_trades>>
       /\ \A t \in Threads :
             (/\ threads[t].pc = "remove"
              /\ threads'[t].pc # "remove"
              /\ orders_by_id[threads[t].symbol][threads[t].order_id] = None)
             => /\ threads'[t].pc = "idle"
                /\ result'.op = "cancel"
                /\ result'.order_id = threads[t].order_id
                /\ ~result'.ok
                /\ UNCHANGED <<nodes, buy_orders, sell_orders, orders_by_id,
                               db_orders, db_trades>>
       /\ (/\ \/ AllIdle /\ AllIdle'
              \/ \E t \in Threads : /\ threads[t].op = "cancel"
                                     /\ threads'[t].pc = "idle"
           /\ result'.op = "cancel"
           /\ result'.ok)
          => result'.order_id \notin cancelled]_vars

C9_Witness ==
    /\ result.op = "cancel"
    /\ ~result.ok
    /\ result.order_id \in cancelled
    /\ \E h \in 1..Len(nodes) : Resting(h)

\* C10: once cancel_order has succeeded for an order, no trade emitted later
\* names it and it is neither the best bid/ask nor in the depth, also when
\* the cancel runs while a submit is matching on the symbol.
C10_CancelledNeverTrades ==
    [][/\ \A k \in (Len(db_trades) + 1)..Len(db_trades') :
             /\ db_trades'[k].buy_order_id \notin cancelled
             /\ db_trades'[k].sell_order_id \notin cancelled
       /\ \A s \in Symbols :
             LET d == get_market_depth(World', s, Len(nodes'))
             IN  \A k \in 1..Len(d.buy_nodes \o d.sell_nodes) :
                    nodes'[(d.buy_nodes \o d.sell_nodes)[k]].order_id
                       \notin cancelled']_vars

\* ---------------------------------------------------------- modify, C11-C14
\* the trades executed by this step: the whole list a submit served in one
\* step returns, or the trade a thread has just executed
EmittedNow ==
    IF AllIdle /\ AllIdle'
    THEN IF result'.op = "submit"
         THEN {result'.trades[k] : k \in 1..Len(result'.trades)}
         ELSE {}
    ELSE {threads'[t].executed_trades[Len(threads'[t].executed_trades)] :
            t \in {u \in Threads : Len(threads'[u].executed_trades)
                                     > Len(threads[u].executed_trades)}}

\* this step is the return of a successful modify_order
ModifyReturns ==
    /\ result'.op = "modify"
    /\ result'.ok
    /\ \/ AllIdle /\ AllIdle'
       \/ \E t \in Threads : threads[t].op = "modify" /\ threads'[t].pc = "idle"

\* a node that a modify_order which has returned replaced by a newer node
Superseded(h) ==
    /\ \E g \in (h + 1)..Len(nodes) : nodes[g].order_id = nodes[h].order_id
    /\ \A t \in Threads : ~(/\ threads[t].op = "modify"
                            /\ threads[t].pc = "dbmodify"
                            /\ threads[t].order_id = nodes[h].order_id)

\* C11: a successful modify_order of a resting order re-runs matching. If the
\* new price reaches the opposite side's best price, the modify produces
\* trades before it returns, and when it has returned the modified order does
\* not rest at a price that crosses the opposite best price.
C11_ModifyRematches ==
    [][ModifyReturns
       => LET s == result'.symbol
              n == nodes'[orders_by_id'[s][result'.order_id]]
              before == IF n.side = "BUY" THEN get_best_sell_price(World, s)
                        ELSE get_best_buy_price(World, s)
              after == IF n.side = "BUY" THEN get_best_sell_price(World', s)
                       ELSE get_best_buy_price(World', s)
              Crosses(p) == p # None /\ (IF n.side = "BUY" THEN n.price >= p
                                         ELSE n.price <= p)
              old == nodes[orders_by_id[s][result'.order_id]]
          IN  (AllIdle /\ remaining_quantity(old) > 0 /\ n.quantity > 0)
              => /\ Crosses(before) => Len(db_trades') > Len(db_trades)
                 /\ ~(remaining_quantity(n) > 0 /\ Crosses(after))]_vars

\* C12: modify_order with a new quantity below what the order has already
\* filled fails: a modify of a partially filled order that succeeds leaves it
\* with a quantity >= the filled quantity it had.
C12_ModifyBelowFilledFails ==
    [][(/\ ModifyReturns
        /\ AllIdle
        /\ orders_by_id[result'.symbol][result'.order_id] # None)
       => LET old == nodes[orders_by_id[result'.symbol][result'.order_id]]
              new == nodes'[orders_by_id'[result'.symbol][result'.order_id]]
          IN  (0 < old.filled_quantity /\ old.filled_quantity < old.quantity)
              => new.quantity >= old.filled_quantity]_vars

\* C13: modify_order on an id that is not resting in the named symbol's book
\* (not in its index, or there with its whole quantity filled) returns failure
\* and changes nothing.
C13_ModifyNotRestingFails ==
    [][(/\ AllIdle /\ AllIdle'
        /\ result'.op = "modify"
        /\ LET h == orders_by_id[result'.symbol][result'.order_id]
           IN  \/ h = None
               \/ nodes[h].quantity > 0
                  /\ nodes[h].filled_quantity = nodes[h].quantity)
       => /\ ~result'.ok
          /\ UNCHANGED <<nodes, buy_orders, sell_orders, orders_by_id,
                         db_orders, db_trades>>]_vars

\* C14: strict modify discipline. The node a modify puts on the book sorts
\* after every order that already rests on its side at its new price; a
\* trade never takes that node while another order of the same side and price
\* with an earlier timestamp is still resting; and the node the modify
\* replaced takes part in no trade executed after the modify returned.
C14_ModifyLosesPriority ==
    [][/\ \A s \in Symbols, i \in OrderIds :
             (/\ orders_by_id[s][i] # None
              /\ orders_by_id'[s][i] \notin {None, orders_by_id[s][i]})
             => LET nh == orders_by_id'[s][i]
                IN  \A h \in 1..Len(nodes) :
                       (/\ Resting(h)
                        /\ nodes[h].order_id # i
                        /\ SameQueue(nodes[h], nodes'[nh])
                        /\ nodes[h].price = nodes'[nh].price)
                       => /\ nodes[h].timestamp < nodes'[nh].timestamp
                          /\ Lt(nodes', h, nh)
       /\ \A t \in EmittedNow :
             /\ \A h \in 1..Len(nodes) :
                   ~(/\ h # t.resting
                     /\ \E g \in 1..(t.resting - 1) :
                           nodes[g].order_id = nodes[t.resting].order_id
                     /\ orders_by_id[nodes[h].symbol][nodes[h].order_id] = h
                     /\ orders_by_id'[nodes[h].symbol][nodes[h].order_id] = h
                     /\ remaining_quantity(nodes'[h]) > 0
                     /\ h # t.incoming
                     /\ SameQueue(nodes[h], nodes[t.resting])
                     /\ nodes[h].price = nodes[t.resting].price
                     /\ nodes[h].timestamp < nodes[t.resting].timestamp)
             /\ ~Superseded(t.resting)
             /\ ~Superseded(t.incoming)]_vars

C14_Witness ==
    /\ result.op = "submit"
    /\ \E k \in 1..Len(result.trades) :
          LET r == result.trades[k].resting
          IN  /\ \E g \in 1..(r - 1) : nodes[g].order_id = nodes[r].order_id
              /\ \E h \in 1..(r - 1) :
                    /\ SameQueue(nodes[h], nodes[r])
                    /\ nodes[h].price = nodes[r].price
                    /\ nodes[h].order_id # nodes[r].order_id
                    /\ nodes[h].filled_quantity > 0

\* ----------------------------------------- duplicates and the journal, C15-C17
RECURSIVE SumFilledNodes(_, _)
SumFilledNodes(ns, side) ==
    IF ns = <<>> THEN 0
    ELSE (IF Head(ns).side = side THEN Head(ns).filled_quantity ELSE 0)
         + SumFilledNodes(Tail(ns), side)

RECURSIVE Volume(_)
Volume(trades) ==
    IF trades = <<>> THEN 0 ELSE Head(trades).quantity + Volume(Tail(trades))

\* C15: submit_order with an order id that was accepted before (its order
\* still resting, filled or cancelled) is rejected with an empty trade list and
\* leaves heaps, index, tables and the existing nodes unchanged.
C15_DuplicateRejected ==
    [][(result'.op = "submit" /\ db_orders[result'.order_id].present)
       => /\ ~result'.ok
          /\ result'.trades = <<>>
          /\ UNCHANGED <<buy_orders, sell_orders, orders_by_id,
                         db_orders, db_trades>>
          /\ SubSeq(nodes', 1, Len(nodes)) = nodes]_vars

\* C16: submit atomicity. What a submit adds to the filled quantities of the
\* buy orders, and of the sell orders, is the volume of the trades it wrote to
\* the trades table, and that is the volume of the trades it returned: no
\* filled quantity grows without a journaled and returned trade.
C16_SubmitAtomic ==
    [][(result'.op = "submit" /\ AllIdle /\ AllIdle')
       => LET journaled == SubSeq(db_trades', Len(db_trades) + 1, Len(db_trades'))
          IN  /\ SumFilledNodes(nodes', "BUY") - SumFilledNodes(nodes, "BUY")
                   = Volume(journaled)
              /\ SumFilledNodes(nodes', "SELL") - SumFilledNodes(nodes, "SELL")
                   = Volume(journaled)
              /\ Volume(result'.trades) = Volume(journaled)]_vars

\* C17: a cancel_order or modify_order that reports failure leaves the nodes,
\* heaps and index as they were, and after a cancel_order of an order that
\* was in the index the order is out of the index exactly if its row says
\* CANCELLED.
C17_FailedCallKeepsBook ==
    [][(result'.op \in {"cancel", "modify"} /\ AllIdle /\ AllIdle')
       => /\ ~result'.ok
             => UNCHANGED <<nodes, buy_orders, sell_orders, orders_by_id>>
          /\ (/\ result'.op = "cancel"
              /\ orders_by_id[result'.symbol][result'.order_id] # None
              /\ db_orders[result'.order_id].present)
             => (orders_by_id'[result'.symbol][result'.order_id] = None
                 <=> db_orders'[result'.order_id].status = "CANCELLED")]_vars

\* ------------------------------------------------------ order status, C18-C20
\* this step is the return of a submit_order
SubmitReturns ==
    /\ result'.op = "submit"
    /\ \/ AllIdle /\ AllIdle'
       \/ \E t \in Threads : threads[t].op = "submit" /\ threads'[t].pc = "idle"

\* what order_id had left after trade k of trades, by the trade's own record
LeftAfter(trades, k, order_id) ==
    (IF trades[k].buy_order_id = order_id
     THEN trades[k].buy_remaining ELSE trades[k].sell_remaining)
    - trades[k].quantity

\* the nodes with quantity left that the symbol's index points to
RestingNodes(ns, index, symbol) ==
    {h \in 1..Len(ns) : /\ ns[h].symbol = symbol
                        /\ index[symbol][ns[h].order_id] = h
                        /\ remaining_quantity(ns[h]) > 0}

\* C18: when a submit returns, an order whose last trade of that submit left
\* it nothing is reported FILLED with filled_quantity = quantity, one it left
\* something is reported PARTIALLY_FILLED (orders that no cancel or modify
\* has touched since the trade); a resting order that no trade names
\* is reported PENDING; and a submit that meets a book holding exactly one
\* resting order, on the other side, at a crossing price and with the same
\* quantity left, returns exactly one trade and leaves the book empty.
C18_StatusAfterSubmit ==
    [][/\ SubmitReturns
          => \A k \in 1..Len(result'.trades) :
                \A i \in {result'.trades[k].buy_order_id,
                          result'.trades[k].sell_order_id} :
                   (/\ \A j \in (k + 1)..Len(result'.trades) :
                          i \notin {result'.trades[j].buy_order_id,
                                    result'.trades[j].sell_order_id}
                    /\ orders_by_id'[result'.symbol][i]
                          \in {result'.trades[k].resting,
                               result'.trades[k].incoming})
                   => LET left == LeftAfter(result'.trades, k, i)
                          st == get_order_status(World', i, result'.symbol)
                      IN  /\ left = 0
                             => /\ st.status = "FILLED"
                                /\ st.filled_quantity = st.quantity
                          /\ left > 0
                             => /\ st.status = "PARTIALLY_FILLED"
                                /\ 0 < st.filled_quantity
                                /\ st.filled_quantity < st.quantity
       /\ \A s \in Symbols, i \in OrderIds :
             (/\ orders_by_id'[s][i] # None
              /\ remaining_quantity(nodes'[orders_by_id'[s][i]]) > 0
              /\ \A k \in 1..Len(db_trades') :
                    i \notin {db_trades'[k].buy_order_id,
                              db_trades'[k].sell_order_id})
             => get_order_status(World', i, s).status = "PENDING"
       /\ (SubmitReturns /\ AllIdle)
          => LET s == result'.symbol
                 n == nodes'[Len(nodes) + 1]
                 before == RestingNodes(nodes, orders_by_id, s)
             IN  (\E r \in before :
                     /\ before = {r}
                     /\ nodes[r].side # n.side
                     /\ remaining_quantity(nodes[r]) = n.quantity
                     /\ IF n.side = "BUY" THEN nodes[r].price <= n.price
                        ELSE nodes[r].price >= n.price)
                 => /\ Len(result'.trades) = 1
                    /\ RestingNodes(nodes', orders_by_id', s) = {}
                    /\ get_best_buy_price(World', s) = None
                    /\ get_best_sell_price(World', s) = None]_vars

C18_Witness ==
    /\ result.op = "submit"
    /\ Len(result.trades) = 2
    /\ LeftAfter(result.trades, 1, nodes[result.trades[1].resting].order_id) = 0
    /\ LeftAfter(result.trades, 2, nodes[result.trades[2].resting].order_id) > 0
    /\ get_order_status(World, nodes[result.trades[2].resting].order_id,
                        result.symbol).status = "PARTIALLY_FILLED"
    /\ get_order_status(World, result.order_id, result.symbol).status = "FILLED"

\* the moves of the status lifecycle (a status may also stay as it is)
StatusMove(from, to) ==
    \/ from = to
    \/ from = "NONE"
    \/ from = "PENDING" /\ to \in {"PARTIALLY_FILLED", "FILLED", "CANCELLED"}
    \/ from = "PARTIALLY_FILLED" /\ to \in {"FILLED", "CANCELLED"}

\* C19: status lifecycle. The status get_order_status reports for an order
\* only moves PENDING -> PARTIALLY_FILLED -> FILLED, or to CANCELLED from
\* PENDING or PARTIALLY_FILLED; FILLED and CANCELLED never change.
C19_StatusLifecycle ==
    [][\A i \in OrderIds :
          db_orders[i].present
          => StatusMove(get_order_status(World, i, db_orders[i].symbol).status,
                        get_order_status(World', i, db_orders[i].symbol).status)]_vars

\* C20: get_order_status(order_id, symbol) finds nothing when order_id is not
\* an order of that symbol, also when it is an order of another symbol.
C20_StatusOfOtherSymbol ==
    \A i \in OrderIds, s \in Symbols :
       (~db_orders[i].present \/ db_orders[i].symbol # s)
       => ~get_order_status(World, i, s).found

\* ------------------------------------------------- market data, C21-C23
\* the numbers of levels a depth query may ask for
DepthLevels == 0..MaxOrders

\* the quantity left on the resting nodes of one side at one price
RECURSIVE RemainingOf(_)
RemainingOf(hs) ==
    IF hs = {} THEN 0
    ELSE LET h == CHOOSE x \in hs : TRUE
         IN  remaining_quantity(nodes[h]) + RemainingOf(hs \ {h})

RestingAt(symbol, side, price) ==
    {h \in 1..Len(nodes) : /\ Resting(h)
                           /\ nodes[h].symbol = symbol
                           /\ nodes[h].side = side
                           /\ nodes[h].price = price}

\* one side of a depth answer has one entry per price, carrying the sum of
\* what the resting orders at that price have left
Aggregated(entries, symbol, side) ==
    /\ \A i, j \in 1..Len(entries) : i # j => entries[i][1] # entries[j][1]
    /\ \A i \in 1..Len(entries) :
          entries[i][2] = RemainingOf(RestingAt(symbol, side, entries[i][1]))

\* C21: get_market_depth(n) returns, on each side, at most one
\* (price, quantity) entry per distinct price, and the quantity is the sum of
\* the remaining quantities of all resting orders at that price on that side.
C21_DepthAggregated ==
    \A symbol \in Symbols, levels \in DepthLevels :
       LET depth == get_market_depth(World, symbol, levels)
       IN  /\ Aggregated(depth.buy, symbol, "BUY")
           /\ Aggregated(depth.sell, symbol, "SELL")

\* prices of one side of a depth answer, best first: never rising for bids,
\* never falling for asks
BestFirst(entries, side) ==
    \A i, j \in 1..Len(entries) :
       i < j => IF side = "BUY" THEN entries[i][1] >= entries[j][1]
                                ELSE entries[i][1] <= entries[j][1]

\* C22: get_market_depth(levels) returns at most `levels` entries per side,
\* bids in descending and asks in ascending price order, and every entry
\* stands for a node with quantity left that the index of its symbol points
\* to: none stands for a cancelled, replaced or fully filled order.
C22_DepthBestFirstNoGhosts ==
    \A symbol \in Symbols, levels \in DepthLevels :
       LET depth == get_market_depth(World, symbol, levels)
       IN  /\ Len(depth.buy) <= levels /\ Len(depth.sell) <= levels
           /\ BestFirst(depth.buy, "BUY") /\ BestFirst(depth.sell, "SELL")
           /\ \A k \in 1..Len(depth.buy_nodes) :
                 /\ Resting(depth.buy_nodes[k])
                 /\ depth.buy[k][2] > 0
           /\ \A k \in 1..Len(depth.sell_nodes) :
                 /\ Resting(depth.sell_nodes[k])
                 /\ depth.sell[k][2] > 0

\* a side's heap holds a ghost above two resting orders of different prices
\* and a depth of one level reports the better of the two only
C22_Witness ==
    \E symbol \in Symbols, side \in Sides :
       LET heap == IF side = "BUY" THEN buy_orders[symbol] ELSE sell_orders[symbol]
           depth == get_market_depth(World, symbol, 1)
           shown == IF side = "BUY" THEN depth.buy_nodes ELSE depth.sell_nodes
       IN  /\ Len(heap) = 3
           /\ is_filled(nodes[heap[1]])
           /\ Resting(heap[2]) /\ Resting(heap[3])
           /\ nodes[heap[2]].price # nodes[heap[3]].price
           /\ Len(shown) = 1
           /\ ~BetterPrice(nodes[heap[2]], nodes[shown[1]])
           /\ ~BetterPrice(nodes[heap[3]], nodes[shown[1]])

\* the resting nodes of one side of a symbol
RestingSide(symbol, side) ==
    {h \in 1..Len(nodes) : /\ Resting(h)
                           /\ nodes[h].symbol = symbol
                           /\ nodes[h].side = side}

\* the best price among the resting orders of a side, None when none rests
BestResting(symbol, side) ==
    LET hs == RestingSide(symbol, side)
    IN  IF hs = {} THEN None
        ELSE nodes[CHOOSE h \in hs :
                      \A g \in hs : ~BetterPrice(nodes[g], nodes[h])].price

\* C23: get_best_buy_price returns the highest price among the buy orders
\* resting with quantity left and get_best_sell_price the lowest among such
\* sell orders, None when there is none: cancelled, replaced and filled
\* orders never decide the best price.
C23_BestPrices ==
    \A symbol \in Symbols :
       /\ get_best_buy_price(World, symbol) = BestResting(symbol, "BUY")
       /\ get_best_sell_price(World, symbol) = BestResting(symbol, "SELL")

\* the top of a side's heap is a ghost at a price better than the best
\* resting order under it
C23_Witness ==
    \E symbol \in Symbols, side \in Sides :
       LET heap == IF side = "BUY" THEN buy_orders[symbol] ELSE sell_orders[symbol]
       IN  /\ Len(heap) >= 2
           /\ is_filled(nodes[heap[1]])
           /\ RestingSide(symbol, side) # {}
           /\ \A h \in RestingSide(symbol, side) :
                 BetterPrice(nodes[heap[1]], nodes[h])

\* ------------------------------------------------------- recovery, C24-C25
RecMaxNow == 6          \* no request or restart once the clock has passed it
RecMaxOps == 3          \* MaxOps of the specification with restarts

\* the engine of a newly started process: MatchingEngine.__init__; the tables
\* and the clock are those the old process left
FreshEngine(w) ==
    [w EXCEPT !.nodes = <<>>,
              !.buy_orders = [s \in Symbols |-> <<>>],
              !.sell_orders = [s \in Symbols |-> <<>>],
              !.orders_by_id = [s \in Symbols |-> [i \in OrderIds |-> None]],
              !.order_books = {}]

\* the loop of rebuild_from_db over the active rows, in the order of the
\* table: a node with the row's quantity, price and filled_quantity and the
\* row's created_at as its timestamp is added to its book; nothing is matched
RECURSIVE LoadOrders(_, _)
LoadOrders(w, ids) ==
    IF ids = {} THEN w
    ELSE LET i == CHOOSE x \in ids : \A y \in ids : x <= y
             o == w.db_orders[i]
             order_node == [order_id |-> i, symbol |-> o.symbol, side |-> o.side,
                            quantity |-> o.quantity, price |-> o.price,
                            timestamp |-> o.created_at,
                            filled_quantity |-> o.filled_quantity]
             w1 == [w EXCEPT !.nodes = Append(@, order_node)]
             f == [IdleFrame EXCEPT !.order_id = i, !.symbol = o.symbol,
                                    !.node = Len(w1.nodes)]
         IN  LoadOrders(add_order(get_order_book(w1, o.symbol), f).w, ids \ {i})

\* MatchingEngine.rebuild_from_db on a fresh engine
rebuild_from_db(w) ==
    LoadOrders(w, {i \in OrderIds :
                      /\ w.db_orders[i].present
                      /\ w.db_orders[i].status \in {"PENDING", "PARTIALLY_FILLED"}})

\* MatchingEngine._schedule_next_snapshot: a new Timer of interval seconds
schedule_next_snapshot_unchecked(interval, thread) ==
    [started |-> TRUE, remaining |-> IF interval > 0 THEN interval ELSE 0]

schedule_next_snapshot(interval, thread) ==
    IF interval <= 0 THEN thread
    ELSE [started |-> TRUE, remaining |-> interval]

\* MatchingEngine.start_snapshot_scheduler
start_snapshot_scheduler(interval, thread) ==
    IF ~thread.started THEN schedule_next_snapshot(interval, thread) ELSE thread

\* the process is restarted between two requests: a fresh engine is imported,
\* create_app rebuilds its books from the orders table and starts the
\* snapshot scheduler
Restart ==
    /\ AllIdle
    /\ SetWorld(rebuild_from_db(FreshEngine(World)))
    /\ result' = [NoResult EXCEPT !.op = "restart"]
    /\ snapshot_thread' = start_snapshot_scheduler(snapshot_interval_sec, NoTimer)
    /\ UNCHANGED <<threads, cancelled, snapshot_interval_sec, snapshot_file,
                   snapshot_frame, api_key, lockvars>>

RecoverIdle == AllIdle /\ now <= RecMaxNow

NextRecover ==
    \/ RecoverIdle /\ OpsLeft(RecMaxOps) /\ SubmitOrder
    \/ RecoverIdle /\ OpsLeft(RecMaxOps) /\ CancelOrder
    \/ RecoverIdle /\ OpsLeft(RecMaxOps) /\ ModifyOrder
    \/ RecoverIdle /\ Restart

SpecRecover == Init /\ [][NextRecover]_vars

\* what the book of a symbol holds: the facts of its resting orders
RestingFacts(w, symbol) ==
    {[order_id |-> w.nodes[h].order_id, side |-> w.nodes[h].side,
      price |-> w.nodes[h].price, quantity |-> w.nodes[h].quantity,
      filled_quantity |-> w.nodes[h].filled_quantity] :
        h \in RestingNodes(w.nodes, w.orders_by_id, symbol)}

\* the trades a submit returns, as the caller can compare them
TradesOfSubmit(w, side, symbol, quantity, price) ==
    LET trades == Run(post_order(w, side, symbol, quantity, price)).f.executed_trades
    IN  [k \in 1..Len(trades) |->
            <<trades[k].buy_order_id, trades[k].sell_order_id,
              trades[k].quantity, trades[k].price>>]

NotCrossed(w, symbol) ==
    \/ get_best_buy_price(w, symbol) = None
    \/ get_best_sell_price(w, symbol) = None
    \/ get_best_buy_price(w, symbol) < get_best_sell_price(w, symbol)

\* C24: recovery round trip. The engine rebuilt by rebuild_from_db from the
\* tables of a state S holds exactly the orders that rested in S, with the
\* same side, price, quantity and filled quantity; its best prices and depth
\* are those of S; a submit gets the same trades from it as from S; and its
\* book is not crossed (the states S whose own book is not crossed).
C24_RecoveryRoundTrip ==
    [][result'.op = "restart"
       => \A symbol \in Symbols :
             /\ RestingFacts(World', symbol) = RestingFacts(World, symbol)
             /\ get_best_buy_price(World', symbol) = get_best_buy_price(World, symbol)
             /\ get_best_sell_price(World', symbol) = get_best_sell_price(World, symbol)
             /\ \A levels \in DepthLevels :
                   /\ get_market_depth(World', symbol, levels).buy
                        = get_market_depth(World, symbol, levels).buy
                   /\ get_market_depth(World', symbol, levels).sell
                        = get_market_depth(World, symbol, levels).sell
             /\ NextOrderId(World) <= MaxOrders
                => \A side \in Sides, quantity \in Qtys, price \in Prices :
                      TradesOfSubmit(World', side, symbol, quantity, price)
                        = TradesOfSubmit(World, side, symbol, quantity, price)
             /\ NotCrossed(World, symbol) => NotCrossed(World', symbol)]_vars

\* the resting node of an order in a state w, None when it does not rest
RestingNodeOf(w, symbol, order_id) ==
    LET h == w.orders_by_id[symbol][order_id]
    IN  IF h # None /\ remaining_quantity(w.nodes[h]) > 0 THEN h ELSE None

\* C25: recovery keeps time priority. Of two orders that rest at the same
\* price on the same side before a restart and after it, the one that was
\* ahead of the other before the restart (OrderNode.__lt__, so the one
\* matched first) is ahead of it in the rebuilt book, also when one of them had
\* been modified before the restart.
C25_RecoveryKeepsPriority ==
    [][result'.op = "restart"
       => \A symbol \in Symbols, i, j \in OrderIds :
             LET a == RestingNodeOf(World, symbol, i)
                 b == RestingNodeOf(World, symbol, j)
                 ra == RestingNodeOf(World', symbol, i)
                 rb == RestingNodeOf(World', symbol, j)
             IN  (/\ i # j
                  /\ a # None /\ b # None /\ ra # None /\ rb # None
                  /\ nodes[a].side = nodes[b].side
                  /\ nodes[a].price = nodes[b].price
                  /\ nodes'[ra].price = nodes'[rb].price
                  /\ Lt(nodes, a, b))
                 => Lt(nodes', ra, rb)]_vars

\* ------------------------------------------------------ snapshots, C26-C27
MaxInterval == 2        \* SNAPSHOT_INTERVAL_SEC is drawn from -1..MaxInterval
SnapMaxOps == 2         \* MaxOps of the specification with snapshots

SnapshotIntervals == (0 - 1)..MaxInterval

\* the heap of one side after get_market_depth: the popping loop, then the
\* popped nodes pushed back in the order they were popped
RECURSIVE DepthPop(_, _, _)
DepthPop(ns, heap, levels) ==
    IF heap # <<>> /\ levels > 0
    THEN LET r == DepthPop(ns, heappop(ns, heap),
                           IF is_filled(ns[heap[1]]) THEN levels ELSE levels - 1)
         IN  [heap |-> r.heap, temp |-> <<heap[1]>> \o r.temp]
    ELSE [heap |-> heap, temp |-> <<>>]

RECURSIVE PushAll(_, _, _)
PushAll(ns, heap, temp) ==
    IF temp = <<>> THEN heap
    ELSE PushAll(ns, heappush(ns, heap, Head(temp)), Tail(temp))

DepthRestored(ns, heap, levels) ==
    LET r == DepthPop(ns, heap, levels) IN PushAll(ns, r.heap, r.temp)

\* the heaps as one pass of _serialize over a book leaves them: depth with
\* levels=1000 (every node), then the pruning of both best-price getters
SerializedHeaps(w, symbol) ==
    [w EXCEPT !.buy_orders[symbol] =
                  PruneFilled(w.nodes, DepthRestored(w.nodes, @, Len(w.nodes))),
              !.sell_orders[symbol] =
                  PruneFilled(w.nodes, DepthRestored(w.nodes, @, Len(w.nodes)))]

RECURSIVE SerializeBooks(_, _)
SerializeBooks(w, symbols) ==
    IF symbols = {} THEN w
    ELSE LET symbol == CHOOSE x \in symbols : TRUE
         IN  SerializeBooks(SerializedHeaps(w, symbol), symbols \ {symbol})

\* MatchingEngine._serialize: for every book, the depth, one entry per entry
\* of orders_by_id, best bid and best ask (the payload's own timestamp is left
\* out); w is the engine after the queries have run
serialize(w) ==
    [data |->
        [symbol \in w.order_books |->
            LET depth == get_market_depth(w, symbol, Len(w.nodes))
            IN  [best_bid |-> get_best_buy_price(w, symbol),
                 best_ask |-> get_best_sell_price(w, symbol),
                 depth |-> [buy |-> depth.buy, sell |-> depth.sell],
                 orders |-> {[order_id |-> w.nodes[h].order_id,
                              symbol |-> w.nodes[h].symbol,
                              side |-> w.nodes[h].side,
                              quantity |-> w.nodes[h].quantity,
                              price |-> w.nodes[h].price,
                              filled_quantity |-> w.nodes[h].filled_quantity,
                              timestamp |-> w.nodes[h].timestamp] :
                                h \in {w.orders_by_id[symbol][i] : i \in OrderIds}
                                      \ {None}}]],
     w |-> SerializeBooks(w, w.order_books)]

\* create_app calls start_snapshot_scheduler
StartSnapshotScheduler ==
    /\ snapshot_thread' = start_snapshot_scheduler(snapshot_interval_sec,
                                                   snapshot_thread)
    /\ UNCHANGED <<nodes, buy_orders, sell_orders, orders_by_id, order_books,
                   db_orders, db_trades, now, threads, result, cancelled,
                   snapshot_interval_sec, snapshot_file,
                   snapshot_frame, api_key, lockvars>>

\* a second of the running Timer passes
TimePasses ==
    /\ snapshot_thread.started /\ snapshot_thread.remaining > 0
    /\ snapshot_thread' = [snapshot_thread EXCEPT !.remaining = @ - 1]
    /\ UNCHANGED <<nodes, buy_orders, sell_orders, orders_by_id, order_books,
                   db_orders, db_trades, now, threads, result, cancelled,
                   snapshot_interval_sec, snapshot_file,
                   snapshot_frame, api_key, lockvars>>

\* the Timer fires: _snapshot_tick runs snapshot_to_disk, which serializes
\* the books and writes the file unless the write raises, and whatever
\* happened schedules the next tick
SnapshotTick ==
    /\ snapshot_thread.started /\ snapshot_thread.remaining = 0
    /\ LET payload == serialize(World)
       IN  /\ SetWorld(payload.w)
           /\ \E written \in BOOLEAN :
                 /\ snapshot_file' = IF written THEN <<payload.data>>
                                      ELSE snapshot_file
                 /\ result' = [NoResult EXCEPT !.op = "snapshot", !.ok = written]
    /\ snapshot_thread' = schedule_next_snapshot(snapshot_interval_sec,
                                                 snapshot_thread)
    /\ UNCHANGED <<threads, cancelled, snapshot_interval_sec, snapshot_frame,
                   api_key, lockvars>>

\* the engine as constructed, SNAPSHOT_INTERVAL_SEC being any of the values
InitSnapshot ==
    InitEngine /\ snapshot_interval_sec \in SnapshotIntervals /\ api_key = None

NextSnapshot ==
    \/ OpsLeft(SnapMaxOps) /\ SubmitOrder
    \/ OpsLeft(SnapMaxOps) /\ CancelOrder
    \/ OpsLeft(SnapMaxOps) /\ ModifyOrder
    \/ StartSnapshotScheduler
    \/ TimePasses
    \/ SnapshotTick

\* a Timer that is due runs its function; of the steps of NextSnapshot only
\* SnapshotTick sets a new Timer while one is due
TimerRuns ==
    /\ snapshot_thread.started /\ snapshot_thread.remaining = 0
    /\ snapshot_thread' = schedule_next_snapshot(snapshot_interval_sec,
                                                 snapshot_thread)

\* the start-up code runs, time passes and a Timer that is due fires
SpecSnapshot ==
    /\ InitSnapshot /\ [][NextSnapshot]_vars
    /\ WF_vars(StartSnapshotScheduler)
    /\ WF_vars(TimePasses)
    /\ WF_snapshot_thread(TimerRuns)

\* C26: a snapshot lists, for each symbol, every resting order and only
\* resting orders: an order is in the order list of a written snapshot
\* exactly if, when the book was read, it had quantity left and had not been
\* cancelled.
C26_SnapshotListsResting ==
    [][(result'.op = "snapshot" /\ result'.ok)
       => /\ DOMAIN snapshot_file'[1] = order_books
          /\ \A symbol \in order_books :
                {o.order_id : o \in snapshot_file'[1][symbol].orders}
                  = {i \in OrderIds \ cancelled :
                        RestingNodeOf(World, symbol, i) # None}]_vars

\* this step is the firing of the Timer
TimerFires ==
    /\ snapshot_thread.started /\ snapshot_thread.remaining = 0
    /\ snapshot_thread' # snapshot_thread

\* C27: with a snapshot interval of 0 or less start_snapshot_scheduler never
\* starts a timer and no snapshot is ever written; with a positive interval
\* snapshots are written by ticks only, a tick comes when the interval has
\* run out, every tick schedules the next one a full interval ahead, and the
\* ticks never end.
C27_SnapshotScheduler ==
    /\ [](snapshot_interval_sec <= 0
          => snapshot_thread = NoTimer /\ snapshot_file = <<>>)
    /\ [][snapshot_file' # snapshot_file => TimerFires]_vars
    /\ [][TimerFires
          => snapshot_thread' = [started |-> TRUE,
                                 remaining |-> snapshot_interval_sec]]_vars
    /\ (snapshot_interval_sec > 0 => []<><<TimerFires>>_vars)

\* a tick has written a snapshot of a book with an order in it and has set
\* the next Timer
C27_Witness ==
    /\ snapshot_interval_sec > 1
    /\ result.op = "snapshot" /\ result.ok
    /\ snapshot_file # <<>>
    /\ \E symbol \in DOMAIN snapshot_file[1] : snapshot_file[1][symbol].orders # {}
    /\ snapshot_thread = [started |-> TRUE, remaining |-> snapshot_interval_sec]

\* ------------------------------------------------------ concurrency, C28
\* the quantity the trades table records for an order
RECURSIVE TradedOf(_, _)
TradedOf(trades, order_id) ==
    IF trades = <<>> THEN 0
    ELSE (IF order_id \in {Head(trades).buy_order_id, Head(trades).sell_order_id}
          THEN Head(trades).quantity ELSE 0)
         + TradedOf(Tail(trades), order_id)

NodesOf(order_id) == {h \in 1..Len(nodes) : nodes[h].order_id = order_id}

\* C28: operations on one symbol are serialized, so what concurrent submits,
\* cancels and modifies leave is what some order of the same calls, run one
\* after the other, leaves. In every such run an order that was never
\* modified trades at most its quantity: two concurrent submits never both
\* trade against the same remaining quantity of one resting order.
C28_Serialized ==
    \A order_id \in OrderIds :
       Cardinality(NodesOf(order_id)) = 1
       => \A h \in NodesOf(order_id) :
             TradedOf(db_trades, order_id) <= nodes[h].quantity

\* ------------------------------------------------------- trade order, C29
\* two request threads that submit only, with every quantity of Qtys
BeginSubmitAny(t) ==
    /\ CanSubmit(ConcMaxOps)
    /\ \E side \in Sides, symbol \in SubmitSymbols, quantity \in Qtys,
          price \in Prices :
          Start(t, post_order(World, side, symbol, quantity, price))

NextConcSubmit ==
    \E t \in Threads : BeginSubmitAny(t) \/ Advance(t)

SpecConcSubmit == Init /\ [][NextConcSubmit]_vars

\* trade k of a submit is listed before trade l: the resting order of k had
\* the better price, or the same price and the earlier acceptance
ListedInMatchOrder(trades) ==
    \A k, l \in 1..Len(trades) :
       k < l => LET a == nodes'[trades[k].resting]
                    b == nodes'[trades[l].resting]
                IN  \/ BetterPrice(a, b)
                    \/ a.price = b.price /\ a.timestamp < b.timestamp

\* C29: the trades one submit_order returns are listed in the order they
\* were matched: best price of the other side first (bid prices never rising
\* for an incoming sell, ask prices never falling for an incoming buy) and,
\* within one price, the resting orders in the order they were accepted.
C29_TradesInMatchOrder ==
    [][SubmitReturns
       => ListedInMatchOrder(result'.trades)]_vars

\* a submit has returned two trades at different prices
C29_Witness ==
    /\ result.op = "submit" /\ Len(result.trades) >= 2
    /\ \E k, l \in 1..Len(result.trades) :
          /\ k < l
          /\ nodes[result.trades[k].resting].price
               # nodes[result.trades[l].resting].price

\* ----------------------------------------------------------- API key, C30
MaxKeys == 2            \* distinct API keys a client may send
ApiMaxOps == 2          \* MaxOps of the specification with the key check

ApiKeys == 1..MaxKeys

\* what a request carries as its key: header X-API-Key or query api_key, None
\* when it carries neither
ProvidedKeys == {None} \cup ApiKeys

\* _enforce_api_key: TRUE when the request is answered 401 before its route
enforce_api_key_post_only(method, expected, provided) ==
    /\ method = "POST"
    /\ expected # None
    /\ provided # expected

enforce_api_key(method, expected, provided) ==
    /\ method \in {"POST", "PUT", "DELETE"}
    /\ expected # None
    /\ provided # expected

\* the 401 answer of _enforce_api_key: the route is not called
Unauthorized ==
    /\ result' = [NoResult EXCEPT !.op = "unauthorized", !.status = 401]
    /\ UNCHANGED <<nodes, buy_orders, sell_orders, orders_by_id, order_books,
                   db_orders, db_trades, now, threads, cancelled,
                   snapshot_interval_sec, snapshot_thread, snapshot_file,
                   snapshot_frame, api_key, lockvars>>

\* GET /orders/<order_id>?symbol= : 200 with the order, or 404
GetOrder ==
    /\ AllIdle
    /\ \E order_id \in OrderIds, symbol \in Symbols :
          LET found == get_order_status(World, order_id, symbol).found
          IN  result' = [NoResult EXCEPT !.op = "get", !.order_id = order_id,
                                         !.symbol = symbol, !.ok = found,
                                         !.status = IF found THEN 200 ELSE 404]
    /\ UNCHANGED <<nodes, buy_orders, sell_orders, orders_by_id, order_books,
                   db_orders, db_trades, now, threads, cancelled,
                   snapshot_interval_sec, snapshot_thread, snapshot_file,
                   snapshot_frame, api_key, lockvars>>

\* a request with its key: the before_request hook, then the route
ApiPost(provided) ==
    IF enforce_api_key("POST", api_key, provided)
    THEN Unauthorized ELSE OpsLeft(ApiMaxOps) /\ SubmitOrder

ApiDelete(provided) ==
    IF enforce_api_key("DELETE", api_key, provided)
    THEN Unauthorized ELSE OpsLeft(ApiMaxOps) /\ CancelOrder

ApiPut(provided) ==
    IF enforce_api_key("PUT", api_key, provided)
    THEN Unauthorized ELSE OpsLeft(ApiMaxOps) /\ ModifyOrder

ApiGet(provided) ==
    IF enforce_api_key("GET", api_key, provided)
    THEN Unauthorized ELSE GetOrder

\* the application with any API key configured, or none
InitApi ==
    InitEngine /\ snapshot_interval_sec = 0 /\ api_key \in {None} \cup ApiKeys

NextApi ==
    \E provided \in ProvidedKeys :
       \/ ApiPost(provided)
       \/ ApiDelete(provided)
       \/ ApiPut(provided)
       \/ ApiGet(provided)

SpecApi == InitApi /\ [][NextApi]_vars

\* C30: when an API key is configured, a POST, PUT or DELETE request that
\* does not carry that key is answered 401 and creates no order, changes no
\* book and writes nothing to the tables; a GET request is never answered
\* 401, whatever key it carries.
C30_ApiKeyRequired ==
    [][\A provided \in ProvidedKeys :
          /\ (/\ api_key # None /\ provided # api_key
              /\ ApiPost(provided) \/ ApiPut(provided) \/ ApiDelete(provided))
             => /\ result'.status = 401
                /\ UNCHANGED <<nodes, buy_orders, sell_orders, orders_by_id,
                               order_books, db_orders, db_trades, cancelled>>
          /\ ApiGet(provided) => result'.status \in {200, 404}]_vars

\* a request without the configured key has been answered 401 while an
\* order rests on the book
C30_Witness ==
    /\ api_key # None
    /\ result.op = "unauthorized" /\ result.status = 401
    /\ \E h \in 1..Len(nodes) : Resting(h)

\* ------------------------------------------------- acceptance order, C31
\* the nodes in the two heaps of a symbol
InHeaps(buys, sells, symbol) ==
    {buys[symbol][k] : k \in 1..Len(buys[symbol])}
      \cup {sells[symbol][k] : k \in 1..Len(sells[symbol])}

\* the nodes of a symbol that have been put into its book: all but those a
\* running submit has built and not yet handed to add_order
Inserted(symbol) ==
    {g \in 1..Len(nodes) :
        /\ nodes[g].symbol = symbol
        /\ ~\E t \in Threads : threads[t].pc = "add" /\ threads[t].node = g}

\* C31: the acceptance timestamp is assigned under the book lock at
\* acceptance: a node that add_order or modify_order puts into the heaps of a
\* symbol has a later timestamp than every node put into that book before it,
\* also when two submits run concurrently and when the node is the
\* replacement made by a modify.
C31_AcceptanceOrder ==
    [][\A symbol \in Symbols :
          \A h \in InHeaps(buy_orders', sell_orders', symbol)
                     \ InHeaps(buy_orders, sell_orders, symbol) :
             \A g \in Inserted(symbol) \ {h} :
                nodes[g].timestamp < nodes'[h].timestamp]_vars

\* ------------------------------------------------------ input checks, C32
InputMaxOps == 3        \* MaxOps of the specification with unchecked input

\* what a client may send as quantity and as price
InputQtys == 0..MaxQty
InputPrices == 0..MaxPrice

\* the 400 answer of a route that refuses its input: nothing else happens
BadRequest ==
    /\ result' = [NoResult EXCEPT !.op = "badrequest", !.status = 400]
    /\ UNCHANGED <<nodes, buy_orders, sell_orders, orders_by_id, order_books,
                   db_orders, db_trades, now, threads, cancelled,
                   snapshot_interval_sec, snapshot_thread, snapshot_file,
                   snapshot_frame, api_key, lockvars>>

\* POST /orders with any quantity and price: both are checked to be positive
\* before the order row is written
PostOrder(side, symbol, quantity, price) ==
    /\ AllIdle
    /\ IF quantity <= 0 \/ price <= 0
       THEN BadRequest
       ELSE /\ CanSubmit(InputMaxOps)
            /\ Finish(Run(post_order(World, side, symbol, quantity, price)))
            /\ UNCHANGED threads

\* PUT /orders/<order_id> with any quantity and price: the route checks that
\* both are present and hands them to the engine
PutOrder(order_id, symbol, new_quantity, new_price) ==
    /\ AllIdle /\ CanModify(InputMaxOps)
    /\ Finish(Run(put_order(World, order_id, symbol, new_quantity, new_price)))
    /\ UNCHANGED threads

NextInput ==
    \/ \E side \in Sides, symbol \in SubmitSymbols, quantity \in InputQtys,
          price \in InputPrices : PostOrder(side, symbol, quantity, price)
    \/ \E order_id \in OrderIds, symbol \in SubmitSymbols,
          new_quantity \in InputQtys, new_price \in InputPrices :
          PutOrder(order_id, symbol, new_quantity, new_price)
    \/ OpsLeft(InputMaxOps) /\ CancelOrder

SpecInput == Init /\ [][NextInput]_vars

SerMaxOps == 2          \* MaxOps of the specification with a running snapshot
SerMaxFiles == 1        \* snapshots begin until this many files are written

\* _serialize takes no lock of its own: between two of its locked queries
\* (get_market_depth, get_best_buy_price, get_best_sell_price) and between two
\* steps of its dict iterations the request threads run. Each action below is
\* one such section of the Timer thread; the requests are taken whole.
SerializeFrame == UNCHANGED <<nodes, buy_orders, sell_orders, orders_by_id,
                              order_books, db_orders, db_trades, now, threads,
                              cancelled, snapshot_interval_sec, api_key, lockvars>>

\* the keys of a book's orders_by_id
IndexKeys(symbol) == {i \in OrderIds : orders_by_id[symbol][i] # None}

\* one entry of the payload's order list
OrderEntry(h) ==
    [order_id |-> nodes[h].order_id, symbol |-> nodes[h].symbol,
     side |-> nodes[h].side, quantity |-> nodes[h].quantity,
     price |-> nodes[h].price, filled_quantity |-> nodes[h].filled_quantity,
     timestamp |-> nodes[h].timestamp]

\* a dict iterator finds the size of its dict changed: RuntimeError leaves
\* _serialize, snapshot_to_disk prints it and returns None, and
\* _snapshot_tick schedules the next tick
SerializeRaises ==
    /\ snapshot_frame' = [NoSerialize EXCEPT !.raised = TRUE]
    /\ result' = [NoResult EXCEPT !.op = "snapshot"]
    /\ snapshot_thread' = schedule_next_snapshot(snapshot_interval_sec,
                                                 snapshot_thread)
    /\ UNCHANGED snapshot_file

\* the Timer fires: snapshot_to_disk calls _serialize, which starts to iterate
\* over order_books
SerializeBegin ==
    /\ snapshot_thread.started /\ snapshot_thread.remaining = 0
    /\ snapshot_frame.pc = "idle"
    /\ Len(snapshot_file) < SerMaxFiles
    /\ snapshot_frame' = [NoSerialize EXCEPT !.pc = "next",
                                             !.books = order_books,
                                             !.symbols = order_books]
    /\ SerializeFrame /\ UNCHANGED <<result, snapshot_thread, snapshot_file>>

\* the next book of order_books.items(), in any order
SerializeNext ==
    /\ snapshot_frame.pc = "next"
    /\ IF Cardinality(order_books) # Cardinality(snapshot_frame.books)
       THEN SerializeRaises
       ELSE /\ IF snapshot_frame.symbols = {}
               THEN snapshot_frame' = [snapshot_frame EXCEPT !.pc = "write"]
               ELSE \E symbol \in snapshot_frame.symbols :
                       snapshot_frame' =
                           [snapshot_frame EXCEPT !.pc = "depth",
                                                  !.symbol = symbol,
                                                  !.symbols = @ \ {symbol}]
            /\ UNCHANGED <<result, snapshot_thread, snapshot_file>>
    /\ SerializeFrame

\* depth = ob.get_market_depth(levels=1000)
SerializeDepth ==
    /\ snapshot_frame.pc = "depth"
    /\ LET symbol == snapshot_frame.symbol
           depth == get_market_depth(World, symbol, Len(nodes))
       IN  /\ snapshot_frame' =
                  [snapshot_frame EXCEPT !.pc = "iter",
                       !.depth = [buy |-> depth.buy, sell |-> depth.sell]]
           /\ buy_orders' = [buy_orders EXCEPT ![symbol] =
                                 DepthRestored(nodes, @, Len(nodes))]
           /\ sell_orders' = [sell_orders EXCEPT ![symbol] =
                                  DepthRestored(nodes, @, Len(nodes))]
    /\ UNCHANGED <<nodes, orders_by_id, order_books, db_orders, db_trades, now,
                   threads, result, cancelled, snapshot_interval_sec,
                   snapshot_thread, snapshot_file, api_key, lockvars>>

\* ob.orders_by_id.items(): the iterator notes the size of the dict
SerializeIter ==
    /\ snapshot_frame.pc = "iter"
    /\ snapshot_frame' =
           [snapshot_frame EXCEPT !.pc = "orders",
                !.size = Cardinality(IndexKeys(snapshot_frame.symbol)),
                !.ids = {}, !.orders = {}]
    /\ SerializeFrame /\ UNCHANGED <<result, snapshot_thread, snapshot_file>>

\* one step of the loop over orders_by_id: the iterator raises when the size
\* of the dict is no longer the one it noted, ends the loop when no key is
\* left, and else yields the next key, whose node is read as it is now
SerializeOrders ==
    /\ snapshot_frame.pc = "orders"
    /\ LET symbol == snapshot_frame.symbol
           left == IndexKeys(symbol) \ snapshot_frame.ids
       IN  IF Cardinality(IndexKeys(symbol)) # snapshot_frame.size
           THEN SerializeRaises
           ELSE /\ IF left = {}
                   THEN snapshot_frame' = [snapshot_frame EXCEPT !.pc = "bid"]
                   ELSE LET oid == CHOOSE i \in left : \A j \in left : i <= j
                        IN  snapshot_frame' =
                                [snapshot_frame EXCEPT
                                    !.ids = @ \cup {oid},
                                    !.orders = @ \cup
                                      {OrderEntry(orders_by_id[symbol][oid])}]
                /\ UNCHANGED <<result, snapshot_thread, snapshot_file>>
    /\ SerializeFrame

\* 'best_bid': ob.get_best_buy_price()
SerializeBid ==
    /\ snapshot_frame.pc = "bid"
    /\ LET symbol == snapshot_frame.symbol
       IN  /\ snapshot_frame' =
                  [snapshot_frame EXCEPT !.pc = "ask",
                       !.best_bid = get_best_buy_price(World, symbol)]
           /\ buy_orders' = [buy_orders EXCEPT ![symbol] = PruneFilled(nodes, @)]
    /\ UNCHANGED <<nodes, sell_orders, orders_by_id, order_books, db_orders,
                   db_trades, now, threads, result, cancelled,
                   snapshot_interval_sec, snapshot_thread, snapshot_file,
                   api_key, lockvars>>

\* 'best_ask': ob.get_best_sell_price(), and the book's entry is stored
SerializeAsk ==
    /\ snapshot_frame.pc = "ask"
    /\ LET symbol == snapshot_frame.symbol
       IN  /\ snapshot_frame' =
                  [snapshot_frame EXCEPT !.pc = "next",
                       !.data = @ @@ (symbol :>
                           [best_bid |-> snapshot_frame.best_bid,
                            best_ask |-> get_best_sell_price(World, symbol),
                            depth |-> snapshot_frame.depth,
                            orders |-> snapshot_frame.orders])]
           /\ sell_orders' = [sell_orders EXCEPT ![symbol] = PruneFilled(nodes, @)]
    /\ UNCHANGED <<nodes, buy_orders, orders_by_id, order_books, db_orders,
                   db_trades, now, threads, result, cancelled,
                   snapshot_interval_sec, snapshot_thread, snapshot_file,
                   api_key, lockvars>>

\* _serialize returns; snapshot_to_disk writes the file unless the write
\* raises, and _snapshot_tick schedules the next tick
SerializeWrite ==
    /\ snapshot_frame.pc = "write"
    /\ \E written \in BOOLEAN :
          /\ snapshot_file' = IF written THEN <<snapshot_frame.data>>
                               ELSE snapshot_file
          /\ result' = [NoResult EXCEPT !.op = "snapshot", !.ok = written]
    /\ snapshot_frame' = NoSerialize
    /\ snapshot_thread' = schedule_next_snapshot(snapshot_interval_sec,
                                                 snapshot_thread)
    /\ SerializeFrame

\* the engine as constructed with SNAPSHOT_INTERVAL_SEC=1
InitSerialize ==
    InitEngine /\ snapshot_interval_sec = 1 /\ api_key = None

NextSerialize ==
    \/ OpsLeft(SerMaxOps) /\ SubmitOrder
    \/ OpsLeft(SerMaxOps) /\ CancelOrder
    \/ OpsLeft(SerMaxOps) /\ ModifyOrder
    \/ StartSnapshotScheduler
    \/ TimePasses
    \/ SerializeBegin
    \/ SerializeNext
    \/ SerializeDepth
    \/ SerializeIter
    \/ SerializeOrders
    \/ SerializeBid
    \/ SerializeAsk
    \/ SerializeWrite

SpecSerialize == InitSerialize /\ [][NextSerialize]_vars

\* the entry of one book describes one state of it: best_bid and best_ask
\* are the first prices of the two depth lists, and each depth list holds one
\* (price, remaining) pair for every order of the list that has remaining
\* quantity on that side
SideOneState(entry, side, best, depth) ==
    /\ best = IF depth = <<>> THEN None ELSE depth[1][1]
    /\ \A p \in 0..MaxPrice, q \in 1..MaxQty :
          Cardinality({k \in 1..Len(depth) : depth[k] = <<p, q>>})
              = Cardinality({o \in entry.orders :
                               /\ o.side = side /\ o.price = p
                               /\ o.quantity - o.filled_quantity = q})

OneState(entry) ==
    /\ SideOneState(entry, "BUY", entry.best_bid, entry.depth.buy)
    /\ SideOneState(entry, "SELL", entry.best_ask, entry.depth.sell)

\* C33: the snapshot reads each book atomically. No _serialize call ends by
\* the RuntimeError of an iterator whose dict a request changed, and in the
\* file that was written last the entry of every symbol (best_bid, best_ask,
\* depth, orders) describes one single state of that book.
C33_SnapshotAtomic ==
    /\ ~snapshot_frame.raised
    /\ snapshot_file # <<>>
          => \A symbol \in DOMAIN snapshot_file[1] :
                OneState(snapshot_file[1][symbol])

\* --------------------------------------------- locks and books, C34-C35
\* A call of the engine is, for its locks and for the symbol map, a sequence
\* of steps: entering a `with` (acquire), leaving it (release), and between
\* them the statements of its body.
Acq(lock) == [kind |-> "acquire", lock |-> lock]
Rel(lock) == [kind |-> "release", lock |-> lock]
Do(kind, symbol) == [kind |-> kind, lock |-> symbol]

\* MatchingEngine.get_order_book: under the engine's lock, the test
\* `symbol not in self.order_books`, the creation of the book when the test
\* found none, and the read of the book that is returned
get_order_book_unlocked(symbol) ==
    <<Do("check", symbol), Do("create", symbol), Do("return", symbol)>>

get_order_book_steps(symbol) ==
    <<Acq("engine"), Do("check", symbol), Do("create", symbol),
      Do("return", symbol), Rel("engine")>>

\* one locked method of OrderBook, called on the book received
BookSection(symbol) == <<Acq(symbol), Do("book", symbol), Rel(symbol)>>

\* submit_order: get_order_book, then OrderBook.add_order; the matching loop
\* takes no lock
submit_order_locks_nested(symbol) ==
    <<Acq("engine"), Do("check", symbol), Do("create", symbol),
      Do("return", symbol)>> \o BookSection(symbol) \o <<Rel("engine")>>

submit_order_locks(symbol) ==
    get_order_book_steps(symbol) \o BookSection(symbol)

\* cancel_order: get_order_book, then OrderBook.remove_order
cancel_order_locks(symbol) ==
    get_order_book_steps(symbol) \o BookSection(symbol)

\* modify_order: get_order_book, then OrderBook.modify_order
modify_order_locks(symbol) ==
    get_order_book_steps(symbol) \o BookSection(symbol)

\* get_order_status: get_order_book; OrderBook.get_order takes no lock
get_order_status_locks(symbol) == get_order_book_steps(symbol)

\* get_market_data: get_order_book, then get_market_depth,
\* get_best_buy_price and get_best_sell_price
get_market_data_locks(symbol) ==
    get_order_book_steps(symbol)
        \o BookSection(symbol) \o BookSection(symbol) \o BookSection(symbol)

\* _serialize: for every book get_market_depth, get_best_buy_price and
\* get_best_sell_price; books is the order in which the dict yields them
RECURSIVE serialize_locks(_)
serialize_locks(books) ==
    IF books = <<>> THEN <<>>
    ELSE BookSection(Head(books)) \o BookSection(Head(books))
             \o BookSection(Head(books)) \o serialize_locks(Tail(books))

\* the orders in which a dict may yield the books
BookOrders(books) ==
    {s \in [1..Cardinality(books) -> books] :
        \A i, j \in DOMAIN s : i # j => s[i] # s[j]}

LockOps == {"submit", "cancel", "modify", "status", "market"}

LocksOf(op, symbol) ==
    CASE op = "submit" -> submit_order_locks(symbol)
      [] op = "cancel" -> cancel_order_locks(symbol)
      [] op = "modify" -> modify_order_locks(symbol)
      [] op = "status" -> get_order_status_locks(symbol)
      [] op = "market" -> get_market_data_locks(symbol)

LockFrame == UNCHANGED <<nodes, buy_orders, sell_orders, orders_by_id,
                         db_orders, db_trades, now, threads, result, cancelled,
                         snapvars, api_key>>

\* a request thread enters a call of the engine
LockCall(t) ==
    /\ t # TimerThread /\ lock_threads[t].op = "none"
    /\ \E op \in LockOps, symbol \in Symbols :
          lock_threads' = [lock_threads EXCEPT ![t] =
              [NoCall EXCEPT !.op = op, !.symbol = symbol,
                             !.todo = LocksOf(op, symbol)]]
    /\ LockFrame /\ UNCHANGED <<locks, order_books, book_instances>>

\* the Timer thread enters _serialize
LockSnapshot ==
    /\ lock_threads[TimerThread].op = "none"
    /\ \E books \in BookOrders(order_books) :
          lock_threads' = [lock_threads EXCEPT ![TimerThread] =
              [NoCall EXCEPT !.op = "snapshot", !.todo = serialize_locks(books)]]
    /\ LockFrame /\ UNCHANGED <<locks, order_books, book_instances>>

\* the lock the thread asks for next, "none" when its next step is no acquire
Wanted(f) ==
    IF f.todo # <<>> /\ Head(f.todo).kind = "acquire"
    THEN Head(f.todo).lock ELSE "none"

\* RLock.acquire: granted when the lock is free or the thread's own
AcquireLock(t) ==
    LET f == lock_threads[t]
        l == Wanted(f)
    IN  /\ l # "none"
        /\ locks[l].owner \in {None, t}
        /\ locks' = [locks EXCEPT ![l] = [owner |-> t, count |-> @.count + 1]]
        /\ lock_threads' = [lock_threads EXCEPT ![t] =
               [f EXCEPT !.held = Append(@, l), !.todo = Tail(@)]]
        /\ LockFrame /\ UNCHANGED <<order_books, book_instances>>

\* the `with` is left
ReleaseLock(t) ==
    LET f == lock_threads[t]
    IN  /\ f.todo # <<>> /\ Head(f.todo).kind = "release"
        /\ locks' = [locks EXCEPT ![Head(f.todo).lock] =
               IF @.count = 1 THEN Unlocked ELSE [@ EXCEPT !.count = @ - 1]]
        /\ lock_threads' = [lock_threads EXCEPT ![t] =
               [f EXCEPT !.held = SubSeq(@, 1, Len(@) - 1), !.todo = Tail(@)]]
        /\ LockFrame /\ UNCHANGED <<order_books, book_instances>>

\* one statement of a body: the test of get_order_book, its creation of a new
\* OrderBook, its read of the book it returns, or a method of the book
BodyStep(t) ==
    LET f == lock_threads[t]
        kind == Head(f.todo).kind
        symbol == Head(f.todo).lock
        created == book_instances[symbol].made + 1
    IN  /\ f.todo # <<>> /\ kind \notin {"acquire", "release"}
        /\ lock_threads' = [lock_threads EXCEPT ![t] =
               [f EXCEPT !.todo = Tail(@),
                         !.absent = IF kind = "check"
                                    THEN book_instances[symbol].current = None
                                    ELSE @,
                         !.book = IF kind = "return"
                                  THEN book_instances[symbol].current ELSE @]]
        /\ IF kind = "create" /\ f.absent
           THEN /\ book_instances' = [book_instances EXCEPT ![symbol] =
                       [current |-> created, made |-> created]]
                /\ order_books' = order_books \cup {symbol}
           ELSE UNCHANGED <<order_books, book_instances>>
        /\ LockFrame /\ UNCHANGED locks

\* the call returns
ReturnCall(t) ==
    /\ lock_threads[t].op # "none" /\ lock_threads[t].todo = <<>>
    /\ lock_threads' = [lock_threads EXCEPT ![t] = NoCall]
    /\ LockFrame /\ UNCHANGED <<locks, order_books, book_instances>>

NextLocks ==
    \/ \E t \in LockThreads : LockCall(t)
    \/ LockSnapshot
    \/ \E t \in LockThreads : AcquireLock(t)
    \/ \E t \in LockThreads : ReleaseLock(t)
    \/ \E t \in LockThreads : BodyStep(t)
    \/ \E t \in LockThreads : ReturnCall(t)

SpecLocks == Init /\ [][NextLocks]_vars

\* the thread is in a call and its next step is not a wait for a lock that
\* another thread owns
CanRun(t) ==
    /\ lock_threads[t].op # "none"
    /\ Wanted(lock_threads[t]) # "none"
          => locks[Wanted(lock_threads[t])].owner \in {None, t}

HeldBy(t) == {lock_threads[t].held[i] : i \in DOMAIN lock_threads[t].held}

\* C34: lock discipline. No thread owns the engine's lock and a book's lock
\* at the same time (so the engine's lock is never held while a book lock is
\* acquired or a book operation runs), no thread owns the locks of two
\* different books, and there is no deadlock: while some call is running,
\* some running call can take its next step.
C34_LockDiscipline ==
    /\ \A t \in LockThreads :
          /\ "engine" \in HeldBy(t) => HeldBy(t) = {"engine"}
          /\ Cardinality(HeldBy(t) \cap Symbols) <= 1
    /\ (\E t \in LockThreads : lock_threads[t].op # "none")
          => \E t \in LockThreads : CanRun(t)

\* one thread is inside get_order_book, another inside an operation of book
\* X, and the Timer thread waits for the lock of book X
C34_Witness ==
    \E t, u \in Threads :
       /\ HeldBy(t) = {"engine"} /\ HeldBy(u) = {"X"}
       /\ Wanted(lock_threads[TimerThread]) = "X"

\* C35: books are created lazily and uniquely. A symbol has a book only once
\* a get_order_book for it has run, at most one OrderBook is ever created for
\* a symbol, and the book a running call received from get_order_book is the
\* one the symbol map holds: no call works on a book that was replaced.
C35_BooksUnique ==
    /\ [](\A symbol \in Symbols :
             /\ book_instances[symbol].made <= 1
             /\ symbol \in order_books <=> book_instances[symbol].current # None)
    /\ [](\A t \in Threads :
             LET f == lock_threads[t]
             IN  /\ f.book # None => f.book = book_instances[f.symbol].current
                 /\ (/\ f.op # "none"
                     /\ \A i \in DOMAIN f.todo : f.todo[i].kind # "return")
                    => f.book # None)
    /\ [][\A symbol \in Symbols :
             book_instances'[symbol] # book_instances[symbol]
                => \E t \in Threads :
                      /\ lock_threads[t].symbol = symbol
                      /\ lock_threads[t].absent
                      /\ lock_threads[t].todo # <<>>
                      /\ Head(lock_threads[t].todo).kind = "create"
                      /\ lock_threads'[t] # lock_threads[t]]_vars

\* two calls for the same symbol run at once and both have received the book
C35_Witness ==
    \E t, u \in Threads :
       /\ t # u
       /\ lock_threads[t].symbol = lock_threads[u].symbol
       /\ lock_threads[t].book # None /\ lock_threads[u].book # None
       /\ lock_threads[t].op # "none" /\ lock_threads[u].op # "none"

\* ------------------------------------------------ orders on two symbols, C36
SymMaxOps == 3          \* MaxOps of the specification with orders on X and Y

\* POST /orders for any of the symbols
SubmitAnySymbol ==
    /\ AllIdle /\ CanSubmit(SymMaxOps)
    /\ \E side \in Sides, symbol \in Symbols, quantity \in Qtys, price \in Prices :
          Finish(Run(post_order(World, side, symbol, quantity, price)))
    /\ UNCHANGED threads

NextSymbols ==
    \/ SubmitAnySymbol
    \/ OpsLeft(SymMaxOps) /\ CancelOrder
    \/ OpsLeft(SymMaxOps) /\ ModifyOrder

SpecSymbols == Init /\ [][NextSymbols]_vars

\* what the book of a symbol shows and holds
BookView(w, symbol) ==
    [buy_orders |-> w.buy_orders[symbol],
     sell_orders |-> w.sell_orders[symbol],
     orders_by_id |-> w.orders_by_id[symbol],
     nodes |-> [h \in {g \in 1..Len(w.nodes) : w.nodes[g].symbol = symbol}
                   |-> w.nodes[h]],
     best_bid |-> get_best_buy_price(w, symbol),
     best_ask |-> get_best_sell_price(w, symbol),
     depth |-> get_market_depth(w, symbol, Len(w.nodes))]

\* C36: symbol isolation. A submit, cancel or modify on one symbol leaves the
\* heaps, the index, the nodes (so the filled quantities), the best prices and
\* the depth of every other symbol as they were, and every trade row pairs a
\* buy order and a sell order of the trade's own symbol.
C36_SymbolIsolation ==
    [][/\ result'.op \in {"submit", "cancel", "modify"}
          => \A other \in Symbols \ {result'.symbol} :
                BookView(World', other) = BookView(World, other)
       /\ \A k \in 1..Len(db_trades') :
             /\ db_orders'[db_trades'[k].buy_order_id].symbol = db_trades'[k].symbol
             /\ db_orders'[db_trades'[k].sell_order_id].symbol = db_trades'[k].symbol
             /\ db_orders'[db_trades'[k].buy_order_id].side = "BUY"
             /\ db_orders'[db_trades'[k].sell_order_id].side = "SELL"]_vars

\* orders rest on both symbols, a trade was made on Y, and the last request,
\* on X, was carried out
C36_Witness ==
    /\ result.symbol = "X" /\ result.ok
    /\ \E h \in 1..Len(nodes) : Resting(h) /\ nodes[h].symbol = "X"
    /\ \E h \in 1..Len(nodes) : Resting(h) /\ nodes[h].symbol = "Y"
    /\ \E k \in 1..Len(db_trades) : db_trades[k].symbol = "Y"

\* --------------------------------------- the matching loop step by step, C37
LoopMaxOps == 3         \* MaxOps of the specification of the loop's steps
LoopThread == 1         \* the thread that serves the requests, one at a time

LoopSubmit ==
    /\ AllIdle /\ CanSubmit(LoopMaxOps)
    /\ \E side \in Sides, symbol \in SubmitSymbols, quantity \in Qtys,
          price \in Prices :
          Start(LoopThread, post_order(World, side, symbol, quantity, price))

LoopCancel ==
    /\ AllIdle
    /\ \E order_id \in OrderIds, symbol \in Symbols :
          /\ CanCancel(LoopMaxOps, order_id)
          /\ Start(LoopThread, delete_order(World, order_id, symbol))

LoopModify ==
    /\ AllIdle /\ CanModify(LoopMaxOps)
    /\ \E order_id \in OrderIds, symbol \in Symbols,
          new_quantity \in ModQtys, new_price \in Prices :
          Start(LoopThread,
                put_order(World, order_id, symbol, new_quantity, new_price))

\* the handler takes its next step
LoopStep == Advance(LoopThread)

NextLoop == LoopSubmit \/ LoopCancel \/ LoopModify \/ LoopStep

SpecLoop == Init /\ [][NextLoop]_vars

\* the heap the incoming order of frame f is matched against
OppositeHeap(ns, buys, sells, f) ==
    IF ns[f.node].side = "BUY" THEN sells[f.symbol] ELSE buys[f.symbol]

\* the test of the while loop fails: the incoming order is filled, the
\* opposite side is empty, or its best price does not cross
LoopEnds(f) ==
    LET heap == OppositeHeap(nodes, buy_orders, sell_orders, f)
    IN  \/ is_filled(nodes[f.node])
        \/ heap = <<>>
        \/ IF nodes[f.node].side = "BUY"
           THEN nodes[heap[1]].price > nodes[f.node].price
           ELSE nodes[heap[1]].price < nodes[f.node].price

\* what bounds the steps the loop of frame f has left: the entries of the
\* opposite heap and the remaining quantity of the incoming order, and within
\* an iteration the statements it has left
LoopVariant(ns, buys, sells, f) ==
    3 * (Len(OppositeHeap(ns, buys, sells, f)) + remaining_quantity(ns[f.node]))
      + (CASE f.pc = "match" -> 2 [] f.pc = "execute" -> 1 [] OTHER -> 0)

\* C37: every submit_order terminates. At the loop's test the loop ends
\* exactly when the incoming order is filled, the opposite side is empty or
\* the opposite best price does not cross; otherwise the iteration either
\* discards one stale entry from the top of the opposite heap and nothing
\* else, or executes one trade of positive quantity, which is recorded and
\* added to the fill of the incoming order. Every step of the loop lowers
\* LoopVariant, which is never negative, so the loop has finitely many steps.
C37_SubmitTerminates ==
    [][LET f == threads[LoopThread]
           g == threads'[LoopThread]
           heap == OppositeHeap(nodes, buy_orders, sell_orders, f)
       IN  f.op = "submit"
           => /\ f.pc = "match" /\ LoopEnds(f)
                 => g.pc = "idle" /\ result'.op = "submit" /\ result'.ok
              /\ f.pc = "match" /\ ~LoopEnds(f)
                 => IF is_filled(nodes[heap[1]])
                    THEN /\ g = f /\ nodes' = nodes /\ db_trades' = db_trades
                         /\ Len(OppositeHeap(nodes', buy_orders',
                                             sell_orders', f))
                               = Len(heap) - 1
                    ELSE g.pc = "execute" /\ g.trade_quantity > 0
              /\ f.pc = "execute"
                 => /\ g.pc = "update"
                    /\ Len(db_trades') = Len(db_trades) + 1
                    /\ db_trades'[Len(db_trades')].quantity = f.trade_quantity
                    /\ f.trade_quantity > 0
              /\ f.pc = "update"
                 => /\ g.pc = "match"
                    /\ nodes'[f.node].filled_quantity
                          = nodes[f.node].filled_quantity + f.trade_quantity
                    /\ nodes'[f.node].filled_quantity <= nodes[f.node].quantity
              /\ f.pc \in {"match", "execute", "update"}
                 => /\ LoopVariant(nodes, buy_orders, sell_orders, f) >= 0
                    /\ g.pc # "idle"
                       => LoopVariant(nodes', buy_orders', sell_orders', g)
                             < LoopVariant(nodes, buy_orders, sell_orders, f)
      ]_vars

\* a submit is at the test of its loop after it made a trade, and the top of
\* the opposite heap is a stale entry
C37_Witness ==
    LET f == threads[LoopThread]
    IN  /\ f.op = "submit" /\ f.pc = "match" /\ f.executed_trades # <<>>
        /\ ~LoopEnds(f)
        /\ is_filled(nodes[OppositeHeap(nodes, buy_orders, sell_orders, f)[1]])

\* ---------------------------------------------- journal and book, C38-C39
\* the status _update_order_status derives from a node
NodeStatus(n) ==
    IF is_filled(n) THEN "FILLED"
    ELSE IF n.filled_quantity > 0 THEN "PARTIALLY_FILLED"
    ELSE "PENDING"

\* C38: the journal does not lag the book. When submit_order returns, the
\* order row of every order that took part in one of its trades carries the
\* filled_quantity of the in-memory order and the status that goes with it.
C38_JournalMatchesBook ==
    [][(AllIdle /\ AllIdle' /\ result'.op = "submit" /\ result'.ok)
       => \A k \in DOMAIN result'.trades :
             \A h \in {result'.trades[k].incoming, result'.trades[k].resting} :
                /\ db_orders'[nodes'[h].order_id].filled_quantity
                      = nodes'[h].filled_quantity
                /\ db_orders'[nodes'[h].order_id].status = NodeStatus(nodes'[h])]_vars

\* C39: modify_order preserves fills. After a successful modify of an order
\* that is partially filled, the order's node in the index has the filled
\* quantity the order had before the modify, so that its remaining quantity
\* is the new quantity less what was traded.
C39_ModifyKeepsFills ==
    [][(AllIdle /\ AllIdle' /\ result'.op = "modify" /\ result'.ok)
       => LET old == orders_by_id[result'.symbol][result'.order_id]
              new == orders_by_id'[result'.symbol][result'.order_id]
          IN  (/\ old # None
               /\ nodes[old].filled_quantity > 0
               /\ ~is_filled(nodes[old]))
              => /\ new # None
                 /\ nodes'[new].filled_quantity = nodes[old].filled_quantity
                 /\ remaining_quantity(nodes'[new])
                       = nodes'[new].quantity - nodes[old].filled_quantity]_vars

\* ------------------------------------------------- index and heaps, C40
\* how often handle h occurs in a heap
Occurrences(heap, h) == Cardinality({k \in DOMAIN heap : heap[k] = h})

HeapOf(buys, sells, ns, h) ==
    IF ns[h].side = "BUY" THEN buys[ns[h].symbol] ELSE sells[ns[h].symbol]

\* C40: index/heap consistency. Every node the id index of a book holds with
\* remaining quantity is exactly once in the heap of its own side of that
\* book, and a step that takes a node out of a heap takes out only nodes that
\* have no remaining quantity.
C40_IndexHeapConsistent ==
    [][/\ \A symbol \in Symbols, order_id \in OrderIds :
             LET h == orders_by_id'[symbol][order_id]
             IN  (h # None /\ remaining_quantity(nodes'[h]) > 0)
                 => /\ nodes'[h].symbol = symbol
                    /\ Occurrences(HeapOf(buy_orders', sell_orders', nodes', h), h)
                          = 1
       /\ \A h \in 1..Len(nodes) :
             Occurrences(HeapOf(buy_orders', sell_orders', nodes', h), h)
                < Occurrences(HeapOf(buy_orders, sell_orders, nodes, h), h)
             => is_filled(nodes'[h])]_vars

====
